---- MODULE Spec2Model ----
(***************************************************************************)
(* A state-machine model of play4good_bot (src/app.py): the per-user       *)
(* draft conversation (PENDING / ARMED), the submit handler, and the       *)
(* label-based ticket queue kept in the issue tracker.                     *)
(*                                                                         *)
(* Every webhook handler body runs without an await after the request body *)
(* has been read (the handlers call the blocking `requests` API), so one   *)
(* handler body is one atomic step of the model.                           *)
(*                                                                         *)
(* Python values are modelled as follows.                                  *)
(*   dict            a set of <<key, value>> pairs (DictGet/DictSet/...)   *)
(*   Optional record None is <<>>, a present record r is <<r>>             *)
(*   Optional str    None is the string "None"                             *)
(*   message text    a sequence of one-character strings                   *)
(*   message ids     positive integers, 0 where Python has no value        *)
(***************************************************************************)
EXTENDS Integers, Sequences, FiniteSets, TLC

(* ------------------------------ bounds --------------------------------- *)
\* Issues the tracker holds per repository before submissions stop.
MaxIssues == 4
\* Keyboard-bearing messages Telegram hands out before rendering stops.
MaxMsg == 4
\* Last value of the clock.
MaxTime == 4
\* Updates read from the transport whose handler body has not run yet.
MaxInflight == 2

(* ------------------------- Python value helpers ------------------------ *)
None == <<>>
Some(v) == <<v>>
NoneStr == "None"

DictHas(D, k) == \E e \in D : e[1] = k
DictGet(D, k, dflt) == IF DictHas(D, k) THEN (CHOOSE e \in D : e[1] = k)[2] ELSE dflt
DictPopNothing(D, k) == D
DictPop(D, k) == {e \in D : e[1] # k}
DictSetAppend(D, k, v) == D \cup {<<k, v>>}
DictSet(D, k, v) == {e \in D : e[1] # k} \cup {<<k, v>>}
Range(seq) == {seq[i] : i \in DOMAIN seq}
\* A dict whose iteration order matters: the sequence of its <<key, value>> items.
ODictHas(D, k) == \E i \in DOMAIN D : D[i][1] = k
ODictSet(D, k, v) == IF ODictHas(D, k) THEN [i \in DOMAIN D |-> IF D[i][1] = k THEN <<k, v>> ELSE D[i]]
                     ELSE Append(D, <<k, v>>)

(* str methods, on sequences of characters *)
StartsWith(s, p) == Len(s) >= Len(p) /\ SubSeq(s, 1, Len(p)) = p
RECURSIVE LStrip(_)
LStrip(s) == IF s # <<>> /\ Head(s) = " " THEN LStrip(Tail(s)) ELSE s
RECURSIVE RStrip(_)
RStrip(s) == IF s # <<>> /\ s[Len(s)] = " " THEN RStrip(SubSeq(s, 1, Len(s) - 1)) ELSE s
Strip(s) == RStrip(LStrip(s))
LowerChar(c) == CASE c = "T" -> "t" [] c = "H" -> "h" [] c = "A" -> "a" [] OTHER -> c
Lower(s) == [i \in 1..Len(s) |-> LowerChar(s[i])]
\* index of the first occurrence of character ch in s, 0 when there is none
Find(s, ch) == IF \E i \in 1..Len(s) : s[i] = ch
               THEN CHOOSE i \in 1..Len(s) : s[i] = ch /\ \A j \in 1..(i - 1) : s[j] # ch
               ELSE 0
\* s.split(ch, 1): one part when ch does not occur, else the parts around its first occurrence
Split1(s, ch) == IF Find(s, ch) = 0 THEN <<s>>
                 ELSE <<SubSeq(s, 1, Find(s, ch) - 1), SubSeq(s, Find(s, ch) + 1, Len(s))>>

(* ---------------------------- configuration ---------------------------- *)
\* The environment the model runs the program in: multi-repo mode without the
\* single-repo fallback, one gated group bound to a repository, one mapped developer.
GITHUB_REPO == NoneStr
REQUIRE_TICKET_COMMAND == TRUE
ARM_TTL_SECONDS == 2
RepoA == "o/a"
RepoB == "o/b"
Repos == {RepoA, RepoB}
REPO_CONFIG == {<<RepoA, [short |-> <<"a">>, default_branch |-> "main"]>>,
                <<RepoB, [short |-> <<"b">>, default_branch |-> "main"]>>}
\* the keys of REPO_CONFIG as message text
REPO_FULL_NAMES == {<<<<"o", "/", "a">>, RepoA>>, <<<<"o", "/", "b">>, RepoB>>}
SHORT_TO_REPO == {<<e[2].short, e[1]>> : e \in REPO_CONFIG}
GroupChat == [id |-> -100, type |-> "supergroup"]
PrivateChat(u) == [id |-> u, type |-> "private"]
CHAT_TO_REPO == {<<GroupChat.id, RepoA>>}
DEVELOPER_MAP == {<<1, [branch |-> "dev/a", label |-> "developer:a"]>>}
BRANCH_TO_DEV == {<<e[2].branch, e[1]>> : e \in DEVELOPER_MAP}
DEFAULT_OPTIONS == [multi_agent |-> FALSE, testing |-> FALSE, approve_plan |-> FALSE]
OPTION_LABELS == {<<"multi_agent", "ci:multi-agent">>, <<"testing", "ci:testing">>,
                  <<"approve_plan", "ci:approve">>}

(* ------------------------------- state --------------------------------- *)
VARIABLES
  PENDING,                    \* key -> draft
  ARMED,                      \* key -> expiry time
  USER_ACTIVE_REPO,           \* user -> repository chosen with /repo
  DEV_CHAT,                   \* ctx -> notification target
  BRANCH_JUST_CREATED,        \* ctx -> time
  ACTIVE_TICKET,              \* ctx -> Optional marker {issue_number, title}
  LAST_DEPLOY_URL,            \* ctx -> url
  RECENTLY_MERGED,            \* ctx -> merged-message record
  CI_PROGRESS,                \* ctx -> progress record
  APPROVAL_REQUESTS,          \* approval key -> {status, feedback}, in insertion order
  APPROVAL_AWAITING_FEEDBACK, \* chat -> {approval_key, issue_number}
  issues,                     \* the tracker: repository -> sequence of issues, by number
  ci_runs,                    \* the external worker: <<repo, issue>> runs started and not ended
  now,                        \* the clock read by now_ts()
  msgSeq,                     \* the last message id Telegram handed out
  inflight,                   \* updates read from the transport, handler body not yet run
  event,                      \* the request the last step handled
  response,                   \* how that handler ended: "ok" or "error" (uncaught exception)
  tg_calls,                   \* the Telegram API calls it made, in order
  gh_calls,                   \* the tracker API calls it made, in order
  create_calls                \* key -> create-issue calls made for the key's latest draft

memory == <<PENDING, ARMED, USER_ACTIVE_REPO, DEV_CHAT, BRANCH_JUST_CREATED, ACTIVE_TICKET,
            LAST_DEPLOY_URL, RECENTLY_MERGED, CI_PROGRESS, APPROVAL_REQUESTS,
            APPROVAL_AWAITING_FEEDBACK>>
queue_memory == <<DEV_CHAT, BRANCH_JUST_CREATED, ACTIVE_TICKET, LAST_DEPLOY_URL,
                  RECENTLY_MERGED, CI_PROGRESS>>
approval_memory == <<APPROVAL_REQUESTS, APPROVAL_AWAITING_FEEDBACK>>
vars == <<memory, issues, ci_runs, now, msgSeq, inflight, event, response, tg_calls, gh_calls,
          create_calls>>

Init ==
  /\ PENDING = {} /\ ARMED = {} /\ USER_ACTIVE_REPO = {} /\ DEV_CHAT = {}
  /\ BRANCH_JUST_CREATED = {} /\ ACTIVE_TICKET = {} /\ LAST_DEPLOY_URL = {}
  /\ RECENTLY_MERGED = {} /\ CI_PROGRESS = {} /\ APPROVAL_REQUESTS = <<>>
  /\ APPROVAL_AWAITING_FEEDBACK = {}
  /\ issues = [r \in Repos |-> <<>>]
  /\ ci_runs = {}
  /\ now = 1
  /\ msgSeq = 0
  /\ inflight = <<>>
  /\ event = [type |-> "start"]
  /\ response = "ok"
  /\ tg_calls = <<>>
  /\ gh_calls = <<>>
  /\ create_calls = {}

(* ------------------------------- util ---------------------------------- *)
is_group(chat) == chat.type \in {"group", "supergroup"}
\* a key that tells the chats apart but not their members
state_key_chat_only(chat_id, user_id) == ToString(chat_id)
state_key(chat_id, user_id) == ToString(chat_id) \o ":" \o ToString(user_id)
\* a key that tells the branches apart but not the repositories
ctx_key_branch_only(repo, branch) == branch
ctx_key(repo, branch) == repo \o ":" \o branch
now_ts == now

resolve_repo(chat_id, user_id) ==
  IF DictHas(CHAT_TO_REPO, chat_id) THEN DictGet(CHAT_TO_REPO, chat_id, NoneStr)
  ELSE IF DictHas(USER_ACTIVE_REPO, user_id) THEN DictGet(USER_ACTIVE_REPO, user_id, NoneStr)
  ELSE GITHUB_REPO

default_branch(repo) ==
  LET r == IF repo # NoneStr THEN repo ELSE GITHUB_REPO
  IN  IF r # NoneStr /\ DictHas(REPO_CONFIG, r) THEN DictGet(REPO_CONFIG, r, None).default_branch
      ELSE "main"

S_ticket == <<"/", "t", "i", "c", "k", "e", "t">>
S_help == <<"/", "h", "e", "l", "p">>
S_start == <<"/", "s", "t", "a", "r", "t">>
S_repo == <<"/", "r", "e", "p", "o">>
S_apps == <<"/", "a", "p", "p", "s">>
S_debug == <<"/", "d", "e", "b", "u", "g">>
S_reset == <<"/", "r", "e", "s", "e", "t">>
S_clear == <<"/", "c", "l", "e", "a", "r">>
S_queue == <<"/", "q", "u", "e", "u", "e">>
S_status == <<"/", "s", "t", "a", "t", "u", "s">>

\* (is_cmd, rest) of a message text
extract_ticket_command_whole(text) ==
  <<StartsWith(Strip(text), S_ticket), IF StartsWith(Strip(text), S_ticket) THEN Strip(text) ELSE <<>>>>
extract_ticket_command(text) ==
  LET t == Strip(text)
      rest0 == Strip(SubSeq(t, Len(S_ticket) + 1, Len(t)))
      parts == Split1(rest0, " ")
      rest == IF StartsWith(rest0, <<"@">>)
              THEN (IF Len(parts) > 1 THEN Strip(parts[2]) ELSE <<>>)
              ELSE rest0
  IN  IF t = <<>> THEN <<FALSE, <<>>>>
      ELSE IF StartsWith(t, S_ticket) THEN <<TRUE, rest>>
      ELSE <<FALSE, <<>>>>

\* msg.image: "none", "photo", or the mime type of an attached document
extract_image_from_message(msg) ==
  IF msg.image = "photo" THEN Some([file_id |-> "photo_file", ext |-> "jpg"])
  ELSE IF msg.image = "image/png" THEN Some([file_id |-> "doc_file", ext |-> "png"])
  ELSE IF msg.image = "image/jpeg" THEN Some([file_id |-> "doc_file", ext |-> "jpg"])
  ELSE None

(* --------------------------- Telegram helpers -------------------------- *)
\* One recorded API call: the method, the chat, the message it edits or creates (0 for
\* a call that names no message or whose send failed), and what a notice is about.
TgCall(m, chat_id, mid) == [m |-> m, chat |-> chat_id, mid |-> mid, what |-> ""]
\* a plain message, with what it tells the chat
Say(chat_id, what) == [m |-> "sendMessage", chat |-> chat_id, mid |-> 0, what |-> what]
\* An outcome of one call to Telegram: answered ok, answered with an error, or the
\* HTTP request itself raised.
TgOutcomes == {"ok", "not_ok", "raise"}
TgAnswers == {"ok", "not_ok"}

\* Telegram hands out at most MaxMsg ids: past that its sends no longer answer ok.
TgCan(tgo) == tgo = "ok" => msgSeq < MaxMsg

\* show_confirmation: send the summary with its keyboard; the draft keeps the id of the
\* message when Telegram answered ok.  The result is the draft after the call.
show_confirmation(state, tgo) ==
  IF tgo = "ok" THEN [state EXCEPT !.confirmation_message_id = msgSeq + 1] ELSE state
show_confirmation_calls(chat_id, tgo) ==
  <<TgCall("sendMessage_keyboard", chat_id, IF tgo = "ok" THEN msgSeq + 1 ELSE 0)>>
show_confirmation_seq(tgo) == IF tgo = "ok" THEN msgSeq + 1 ELSE msgSeq

\* The draft the three creation sites build (ts is written and never read: left out).
NewDraft(text, chat_id, user_id) ==
  [stage |-> "confirm", text |-> text, screenshot |-> None,
   dev_info |-> IF DictHas(DEVELOPER_MAP, user_id)
                THEN Some(DictGet(DEVELOPER_MAP, user_id, None)) ELSE None,
   options |-> DEFAULT_OPTIONS,
   repo |-> resolve_repo(chat_id, user_id),
   confirmation_message_id |-> 0]

(* ------------------------ inbound Telegram updates --------------------- *)
Msg(chat, user_id, text, voice, image) ==
  [type |-> "message", chat |-> chat, from |-> user_id, text |-> text, voice |-> voice,
   image |-> image]
\* A button click: data is the callback data split at ":" (the action, then its fields),
\* message_id the message that carried the button.
Click(chat, clicker_id, data, message_id) ==
  [type |-> "callback_query", chat |-> chat, from |-> clicker_id, data |-> data,
   message_id |-> message_id]

KeyOf(upd) == state_key(upd.chat.id, upd.from)
TextOf(msg) == Strip(msg.text)
CmdBase(msg) == Split1(Lower(TextOf(msg)), "@")[1]
DraftOf(key) == DictGet(PENDING, key, None)

\* the voice gate: the arming of the key (0: none) is over at time t
armed_expired_at_deadline(expires, t) == expires <= t
armed_expired(expires, t) == expires < t

\* The branch of telegram_webhook's message half that handles msg, in the code's order.
Route(msg) ==
  LET text == TextOf(msg)
      cmd == CmdBase(msg)
      key == KeyOf(msg)
      gated == is_group(msg.chat) /\ REQUIRE_TICKET_COMMAND
      tc == extract_ticket_command(text)
  IN  IF cmd \in {S_start, S_help, Tail(S_help)} THEN "help"
      ELSE IF cmd = S_repo \/ StartsWith(Lower(text), S_repo \o <<" ">>) THEN "repo"
      ELSE IF cmd = S_apps THEN "apps"
      ELSE IF cmd = S_debug THEN "debug"
      ELSE IF cmd = S_reset THEN "reset"
      ELSE IF cmd = S_clear THEN "clear"
      ELSE IF cmd = S_queue THEN "queue"
      ELSE IF cmd = S_status THEN "status"
      ELSE IF DictHas(APPROVAL_AWAITING_FEEDBACK, msg.chat.id) /\ text # <<>>
              /\ ~StartsWith(text, <<"/">>) THEN "approval_feedback"
      ELSE IF DictHas(PENDING, key) /\ extract_image_from_message(msg) # None THEN "screenshot"
      ELSE IF DictHas(PENDING, key) /\ DraftOf(key).stage = "edit" /\ text # <<>> THEN "text_edit"
      ELSE IF gated /\ tc[1] /\ tc[2] # <<>> THEN "group_ticket"
      ELSE IF gated /\ tc[1] /\ tc[2] = <<>> THEN "arm"
      ELSE IF gated /\ text # <<>> /\ msg.voice = "none" THEN "ignored"
      ELSE IF text # <<>> /\ ~is_group(msg.chat) /\ tc[1] /\ tc[2] # <<>> THEN "dm_ticket"
      ELSE IF text # <<>> /\ msg.voice = "none" THEN "plain_text"
      ELSE IF msg.voice = "none" THEN "no_file"
      ELSE IF gated /\ armed_expired(DictGet(ARMED, key, 0), now_ts) THEN "not_armed"
      ELSE "voice"

\* What every handler step records: the update, how the handler ended, its API calls.
Handled(upd, resp, tg, gh) ==
  event' = upd /\ response' = resp /\ tg_calls' = tg /\ gh_calls' = gh
\* tg_send_message / tg_send_html: the handler goes on unless the request raised.
Sent(tgo) == IF tgo = "raise" THEN "error" ELSE "ok"

\* A Python call raises TypeError when it passes a keyword the function does not take.
tg_send_html_params == {"chat_id", "html"}
TypeErrorOn(params, keywords) == ~(keywords \subseteq params)

\* /start, /help, help
HelpCmd(msg, tgo) ==
  /\ Route(msg) = "help"
  /\ IF TypeErrorOn(tg_send_html_params, {"reply_to_message_id"})
     THEN Handled(msg, "error", <<>>, <<>>)
     ELSE Handled(msg, Sent(tgo), <<TgCall("sendMessage_html", msg.chat.id, 0)>>, <<>>)
  /\ UNCHANGED <<memory, issues, ci_runs, now, msgSeq, create_calls>>

\* /repo [name]
RepoCmd(msg, tgo) ==
  /\ Route(msg) = "repo"
  /\ LET text == TextOf(msg)
         arg == IF Find(text, " ") # 0 THEN Strip(Split1(text, " ")[2]) ELSE <<>>
         short == DictGet(SHORT_TO_REPO, Lower(arg), NoneStr)
         target == IF short # NoneStr THEN short ELSE DictGet(REPO_FULL_NAMES, arg, NoneStr)
     IN  /\ USER_ACTIVE_REPO' = IF arg # <<>> /\ target # NoneStr
                                THEN DictSet(USER_ACTIVE_REPO, msg.from, target)
                                ELSE USER_ACTIVE_REPO
         /\ Handled(msg, Sent(tgo), <<TgCall("sendMessage", msg.chat.id, 0)>>, <<>>)
  /\ UNCHANGED <<PENDING, ARMED, queue_memory, approval_memory, issues, ci_runs, now, msgSeq,
                 create_calls>>

(* ----------------------- drafts: message handlers ----------------------- *)
\* The three sites that create a draft share their tail: store it, render it.
\* A raised send leaves the stored draft without a message id.
StoreDraft(msg, text, tgo) ==
  LET key == KeyOf(msg)
      draft == NewDraft(text, msg.chat.id, msg.from)
  IN  /\ TgCan(tgo)
      /\ PENDING' = DictSet(PENDING, key, show_confirmation(draft, tgo))
      /\ msgSeq' = show_confirmation_seq(tgo)
      /\ create_calls' = DictSet(create_calls, key, 0)

\* an image while a draft exists: attach it, back to confirm, render again
\* state["screenshot"] = {...}; state["stage"] = "confirm"
attach_screenshot_only(state, img) ==
  [state EXCEPT !.screenshot = Some([file_id |-> img.file_id, ext |-> img.ext])]
attach_screenshot(state, img) ==
  [state EXCEPT !.screenshot = Some([file_id |-> img.file_id, ext |-> img.ext]),
                !.stage = "confirm"]

ScreenshotMsg(msg, tgo) ==
  /\ Route(msg) = "screenshot"
  /\ TgCan(tgo)
  /\ LET key == KeyOf(msg)
         state == attach_screenshot(DraftOf(key), extract_image_from_message(msg)[1])
     IN  PENDING' = DictSet(PENDING, key, show_confirmation(state, tgo))
  /\ msgSeq' = show_confirmation_seq(tgo)
  /\ Handled(msg, Sent(tgo), show_confirmation_calls(msg.chat.id, tgo), <<>>)
  /\ UNCHANGED <<ARMED, USER_ACTIVE_REPO, queue_memory, approval_memory, issues, ci_runs, now,
                 create_calls>>

\* a text while the draft awaits its corrected text
TextEditMsg(msg, tgo) ==
  /\ Route(msg) = "text_edit"
  /\ TgCan(tgo)
  /\ LET key == KeyOf(msg)
         state == [DraftOf(key) EXCEPT !.text = TextOf(msg), !.stage = "confirm"]
     IN  PENDING' = DictSet(PENDING, key, show_confirmation(state, tgo))
  /\ msgSeq' = show_confirmation_seq(tgo)
  /\ Handled(msg, Sent(tgo), show_confirmation_calls(msg.chat.id, tgo), <<>>)
  /\ UNCHANGED <<ARMED, USER_ACTIVE_REPO, queue_memory, approval_memory, issues, ci_runs, now,
                 create_calls>>

\* /ticket <text> in a gated group
GroupTicketMsg(msg, tgo) ==
  /\ Route(msg) = "group_ticket"
  /\ StoreDraft(msg, extract_ticket_command(TextOf(msg))[2], tgo)
  /\ Handled(msg, Sent(tgo), show_confirmation_calls(msg.chat.id, tgo), <<>>)
  /\ UNCHANGED <<ARMED, USER_ACTIVE_REPO, queue_memory, approval_memory, issues, ci_runs, now>>

\* bare /ticket in a gated group: arm the next voice message
ArmMsg(msg, tgo) ==
  /\ Route(msg) = "arm"
  /\ ARMED' = DictSet(ARMED, KeyOf(msg), now_ts + ARM_TTL_SECONDS)
  /\ Handled(msg, Sent(tgo), <<TgCall("sendMessage", msg.chat.id, 0)>>, <<>>)
  /\ UNCHANGED <<PENDING, USER_ACTIVE_REPO, queue_memory, approval_memory, issues, ci_runs, now, msgSeq,
                 create_calls>>

\* messages that change nothing: other texts in a gated group, a message with neither
\* text nor audio, a voice message in a gated group with no live arming
IgnoredMsg(msg) ==
  /\ Route(msg) \in {"ignored", "no_file", "not_armed"}
  /\ Handled(msg, "ok", <<>>, <<>>)
  /\ UNCHANGED <<memory, issues, ci_runs, now, msgSeq, create_calls>>

\* /ticket <text> in a private chat
DmTicketMsg(msg, tgo) ==
  /\ Route(msg) = "dm_ticket"
  /\ StoreDraft(msg, extract_ticket_command(TextOf(msg))[2], tgo)
  /\ Handled(msg, Sent(tgo), show_confirmation_calls(msg.chat.id, tgo), <<>>)
  /\ UNCHANGED <<ARMED, USER_ACTIVE_REPO, queue_memory, approval_memory, issues, ci_runs, now>>

\* any other text outside group gating
PlainTextMsg(msg, tgo) ==
  /\ Route(msg) = "plain_text"
  /\ Handled(msg, Sent(tgo), <<TgCall("sendMessage", msg.chat.id, 0)>>, <<>>)
  /\ UNCHANGED <<memory, issues, ci_runs, now, msgSeq, create_calls>>

\* transcribe: the words of the recording; a recording without words gives "".
RecognizedText == <<"a", "b">>
transcribe(audio) == IF audio = "speech" THEN RecognizedText ELSE <<>>
\* `if not recognized`: the empty string stops the handler
is_recognized_always(recognized) == TRUE
is_recognized(recognized) == recognized # <<>>

\* a voice message that passed the gate; vo is how the download went ("ok": the
\* recording reached transcribe)
VoiceMsg(msg, vo, tgo) ==
  /\ Route(msg) = "voice"
  /\ LET hello == <<Say(msg.chat.id, "transcribing")>>
         recognized == transcribe(msg.voice)
         stored == vo = "ok" /\ is_recognized(recognized)
         sorry == <<Say(msg.chat.id, IF stored THEN "error" ELSE IF vo = "ok" THEN "empty" ELSE vo)>>
     IN  IF stored
         THEN /\ ARMED' = DictPop(ARMED, KeyOf(msg))
              /\ StoreDraft(msg, recognized, tgo)
              \* a send that raises inside the try is reported by the except clause
              /\ Handled(msg, "ok",
                         hello \o show_confirmation_calls(msg.chat.id, tgo)
                               \o (IF tgo = "raise" THEN sorry ELSE <<>>), <<>>)
         ELSE /\ tgo = "ok"
              /\ Handled(msg, "ok", hello \o sorry, <<>>)
              /\ UNCHANGED <<PENDING, ARMED, msgSeq, create_calls>>
  /\ UNCHANGED <<USER_ACTIVE_REPO, queue_memory, approval_memory, issues, ci_runs, now>>

(* ------------------------------ the tracker ---------------------------- *)
\* An outcome of one tracker call: done, refused with an HTTP status, or the request raised.
GhOutcomes == {"ok", "status", "raise"}

\* The part of the state the tracker and queue functions read and write, threaded
\* through one handler: the issues, the worker's runs, the active markers, the progress
\* records, the notification targets, and the tracker calls made so far.
World == [issues |-> issues, runs |-> ci_runs, AT |-> ACTIVE_TICKET, CP |-> CI_PROGRESS,
          DC |-> DEV_CHAT, gh |-> <<>>]
Commit(w) ==
  /\ issues' = w.issues /\ ci_runs' = w.runs /\ ACTIVE_TICKET' = w.AT /\ CI_PROGRESS' = w.CP
  /\ DEV_CHAT' = w.DC

GhCall(w, name, repo, number) == [w EXCEPT !.gh = Append(@, <<name, repo, number>>)]
Exists(w, repo, number) == number \in DOMAIN w.issues[repo]
LabelsOf(w, repo, number) == w.issues[repo][number].labels

\* The worker is triggered by the "labeled" event of queue:execute (the issue did not
\* carry the label before).
gh_add_label(w, number, label, repo, out) ==
  LET done == out = "ok" /\ Exists(w, repo, number)
      fresh == done /\ label \notin LabelsOf(w, repo, number)
      w1 == GhCall(w, "add_label:" \o label, repo, number)
  IN  IF ~done THEN w1
      ELSE [w1 EXCEPT !.issues[repo][number].labels = @ \cup {label},
                      !.runs = IF fresh /\ label = "queue:execute"
                               THEN @ \cup {<<repo, number>>} ELSE @]

gh_remove_label(w, number, label, repo, out) ==
  LET done == out = "ok" /\ Exists(w, repo, number)
      w1 == GhCall(w, "remove_label:" \o label, repo, number)
  IN  IF ~done THEN w1
      ELSE [w1 EXCEPT !.issues[repo][number].labels = @ \ {label}]

\* The numbers of the issues of repo that carry all the labels, in the given order of
\* creation; empty when the call fails.  (per_page = 20 is above MaxIssues.)
RECURSIVE Ascending(_)
Ascending(S) == IF S = {} THEN <<>>
                ELSE LET m == CHOOSE x \in S : \A y \in S : x <= y
                     IN  <<m>> \o Ascending(S \ {m})
RECURSIVE Descending(_)
Descending(S) == IF S = {} THEN <<>>
                 ELSE LET m == CHOOSE x \in S : \A y \in S : x >= y
                      IN  <<m>> \o Descending(S \ {m})
Matching(w, labels, repo) ==
  {n \in DOMAIN w.issues[repo] : labels \subseteq LabelsOf(w, repo, n)}
gh_list_issues_newest_first(w, labels, repo, ok) ==
  IF ok THEN Descending(Matching(w, labels, repo)) ELSE <<>>
gh_list_issues_with_labels(w, labels, repo, ok) ==
  IF ok THEN Ascending(Matching(w, labels, repo)) ELSE <<>>

get_dev_label(branch) ==
  LET uid == DictGet(BRANCH_TO_DEV, branch, 0)
  IN  IF uid # 0 /\ DictHas(DEVELOPER_MAP, uid) THEN DictGet(DEVELOPER_MAP, uid, None).label
      ELSE NoneStr

\* The title and body format_issue derives from a draft's text.
format_issue(text) == [title |-> <<"title of", text>>, body |-> "body"]

\* gh_create_issue, once the request succeeded: the next number of the repository.
gh_create_issue(w, title, labels, repo) ==
  LET number == Len(w.issues[repo]) + 1
  IN  [GhCall(w, "create_issue", repo, number) EXCEPT
         !.issues[repo] = Append(@, [title |-> title, labels |-> labels,
                                     body |-> "body", screenshot |-> FALSE]),
         !.runs = IF "queue:execute" \in labels THEN @ \cup {<<repo, number>>} ELSE @]

(* ------------------------------- the queue ----------------------------- *)
Marker(AT, ctx) == DictGet(AT, ctx, None)

queue_set_active(w, repo, branch, issue_number, title) ==
  LET ctx == ctx_key(repo, branch)
  IN  [w EXCEPT !.AT = DictSet(@, ctx, Some([issue_number |-> issue_number, title |-> title])),
                !.CP = DictSet(@, ctx, [started_at |-> now_ts, last_phase |-> "start",
                                        last_message |-> "", last_update_at |-> now_ts,
                                        options |-> {}, phases_done |-> <<>>,
                                        current_phase_num |-> ""])]

\* the check without the fallback to the tracker
queue_is_busy_memory_only(w, repo, branch, list_ok) ==
  [ret |-> Marker(w.AT, ctx_key(repo, branch)) # None, w |-> w]
\* [ret, w]: whether (repo, branch) has an active ticket, recovering the marker from the
\* tracker when memory has none.
queue_is_busy(w, repo, branch, list_ok) ==
  LET ctx == ctx_key(repo, branch)
      dev_label == get_dev_label(branch)
      w1 == GhCall(w, "list_issues:queue:execute", repo, 0)
      active_issues == gh_list_issues_with_labels(w, {"queue:execute", dev_label}, repo, list_ok)
      number == active_issues[1]
  IN  IF Marker(w.AT, ctx) # None THEN [ret |-> TRUE, w |-> w]
      ELSE IF dev_label = NoneStr THEN [ret |-> FALSE, w |-> w]
      ELSE IF active_issues # <<>>
           THEN [ret |-> TRUE,
                 w |-> queue_set_active(w1, repo, branch, number, w.issues[repo][number].title)]
      ELSE [ret |-> FALSE, w |-> w1]

\* a listing that also starts the first ticket it lists
queue_list_pending_activating(w, repo, branch, list_ok) ==
  LET pending == gh_list_issues_with_labels(w, {"queue:pending", get_dev_label(branch)}, repo,
                                            list_ok)
  IN  [ret |-> pending,
       w |-> IF pending = <<>> THEN w
             ELSE gh_add_label(gh_remove_label(w, pending[1], "queue:pending", repo, "ok"),
                               pending[1], "queue:execute", repo, "ok")]
\* [ret, w]: the pending tickets of (repo, branch), oldest first
queue_list_pending(w, repo, branch, list_ok) ==
  LET dev_label == get_dev_label(branch)
  IN  IF dev_label = NoneStr THEN [ret |-> <<>>, w |-> w]
      ELSE [ret |-> gh_list_issues_with_labels(w, {"queue:pending", dev_label}, repo, list_ok),
            w |-> GhCall(w, "list_issues:queue:pending", repo, 0)]
\* [ret, w]: the number of pending tickets of (repo, branch)
queue_size(w, repo, branch, list_ok) ==
  LET dev_label == get_dev_label(branch)
  IN  IF dev_label = NoneStr THEN [ret |-> 0, w |-> w]
      ELSE [ret |-> Len(gh_list_issues_with_labels(w, {"queue:pending", dev_label}, repo, list_ok)),
            w |-> GhCall(w, "list_issues:queue:pending", repo, 0)]

queue_clear_active(w, repo, branch, out) ==
  LET ctx == ctx_key(repo, branch)
      active == Marker(w.AT, ctx)
      w1 == IF active # None
            THEN gh_remove_label(w, active[1].issue_number, "queue:execute", repo, out)
            ELSE w
  IN  [w1 EXCEPT !.AT = DictSet(@, ctx, None), !.CP = DictPop(@, ctx)]

\* The outcomes of the calls of one queue_process_next (list: BOOLEAN; remove, add:
\* GhOutcomes; tg: TgOutcomes); here all succeed.
NextOk == [list |-> TRUE, remove |-> "ok", add |-> "ok", tg |-> "ok"]

\* [ret, w, tg]: activate the oldest pending ticket; ret is its number, 0 for None.
queue_process_next_from(pending, w, repo, branch, o) ==
  LET ctx == ctx_key(repo, branch)
      w1 == GhCall(w, "list_issues:queue:pending", repo, 0)
      issue_number == pending[1]
      w2 == gh_remove_label(w1, issue_number, "queue:pending", repo, o.remove)
      w3 == gh_add_label(w2, issue_number, "queue:execute", repo, o.add)
      w4 == queue_set_active(w3, repo, branch, issue_number, w.issues[repo][issue_number].title)
      notice == IF DictHas(w.DC, ctx)
                THEN <<TgCall("sendMessage_html", DictGet(w.DC, ctx, None).chat_id, 0)>>
                ELSE <<>>
  IN  IF pending = <<>> THEN [ret |-> 0, w |-> w1, tg |-> <<>>]
      ELSE IF o.remove = "raise" THEN [ret |-> 0, w |-> w2, tg |-> <<>>]
      ELSE IF o.add # "ok" THEN [ret |-> 0, w |-> w3, tg |-> <<>>]
      ELSE IF notice # <<>> /\ o.tg = "raise" THEN [ret |-> 0, w |-> w4, tg |-> notice]
      ELSE [ret |-> issue_number, w |-> w4, tg |-> notice]

queue_process_next(w, repo, branch, o) ==
  LET dev_label == get_dev_label(branch)
  IN  IF dev_label = NoneStr THEN [ret |-> 0, w |-> w, tg |-> <<>>]
      ELSE queue_process_next_from(
             gh_list_issues_with_labels(w, {"queue:pending", dev_label}, repo, o.list),
             w, repo, branch, o)

(* --------------------------- /github/notify ---------------------------- *)
Notify(ev, repo, branch, issue_number) ==
  [type |-> "github_notify", event |-> ev, repo |-> repo, branch |-> branch,
   issue_number |-> issue_number, phase_num |-> "", silent |-> FALSE, options |-> {}]
TerminalEvents == {"claude_failed", "merged"}

\* dev_ctx: the remembered target of ctx, or the developer mapped to the branch
WithDevChat(w, repo, branch) ==
  LET ctx == ctx_key(repo, branch)
      fallback_uid == DictGet(BRANCH_TO_DEV, branch, 0)
  IN  IF ~DictHas(w.DC, ctx) /\ fallback_uid # 0
      THEN [w EXCEPT !.DC = DictSet(@, ctx, [chat_id |-> fallback_uid, user_id |-> fallback_uid,
                                               first_name |-> "Dev"])]
      ELSE w

\* phase: the previous phase is done once a different one starts
PhaseStarted(progress, phase_num) ==
  LET prev == progress.current_phase_num
      done == IF prev # "" /\ prev # phase_num /\ ~(\E i \in DOMAIN progress.phases_done :
                                                     progress.phases_done[i] = prev)
              THEN Append(progress.phases_done, prev) ELSE progress.phases_done
  IN  [progress EXCEPT !.phases_done = done, !.current_phase_num = phase_num,
                       !.last_phase = "phase " \o phase_num, !.last_update_at = now_ts]

\* The handler from world w0 on.  co is the outcome of clear_active's remove-label call,
\* o the outcomes of process_next's calls, tgo the outcome of the handler's own send.
github_notify(p, w0, co, o, tgo) ==
  LET ctx == ctx_key(p.repo, p.branch)
      w == WithDevChat(w0, p.repo, p.branch)
      chat_id == DictGet(w.DC, ctx, None).chat_id
      title == IF Exists(w, p.repo, p.issue_number)
               THEN w.issues[p.repo][p.issue_number].title ELSE <<>>
      html == <<TgCall("sendMessage_html", chat_id, 0)>>
      started == queue_set_active(w, p.repo, p.branch, p.issue_number, title)
      cleared == queue_clear_active(w, p.repo, p.branch, co)
      next == queue_process_next(cleared, p.repo, p.branch, o)
      deploy_url == DictGet(LAST_DEPLOY_URL, ctx, "")
      \* the completion message carries the saved deploy URL, if there is one
      merged_msg == [TgCall("sendMessage_keyboard", chat_id, IF tgo = "ok" THEN msgSeq + 1 ELSE 0)
                       EXCEPT !.what = deploy_url]
  IN  IF ~DictHas(w.DC, ctx)
      THEN /\ Commit(w) /\ Handled(p, "ok", <<>>, <<>>)
           /\ UNCHANGED <<LAST_DEPLOY_URL, RECENTLY_MERGED, msgSeq>>
      ELSE IF p.event = "claude_started"
      THEN /\ Commit(IF p.options # {}
                     THEN [started EXCEPT !.CP = DictSet(@, ctx, [DictGet(@, ctx, None) EXCEPT
                                                                  !.options = p.options])]
                     ELSE started)
           /\ Handled(p, Sent(tgo), html, <<>>)
           /\ UNCHANGED <<LAST_DEPLOY_URL, RECENTLY_MERGED, msgSeq>>
      ELSE IF p.event = "phase"
      THEN /\ Commit(IF DictHas(w.CP, ctx)
                     THEN [w EXCEPT !.CP = DictSet(@, ctx, PhaseStarted(DictGet(@, ctx, None),
                                                                        p.phase_num))]
                     ELSE w)
           /\ IF p.silent THEN tgo = "ok" /\ Handled(p, "ok", <<>>, <<>>)
              ELSE Handled(p, Sent(tgo), html, <<>>)
           /\ UNCHANGED <<LAST_DEPLOY_URL, RECENTLY_MERGED, msgSeq>>
      ELSE IF p.event = "opus_unavailable"
      THEN /\ Commit(w) /\ Handled(p, Sent(tgo), html, <<>>)
           /\ UNCHANGED <<LAST_DEPLOY_URL, RECENTLY_MERGED, msgSeq>>
      ELSE IF p.event = "claude_failed"
      THEN /\ LAST_DEPLOY_URL' = DictPop(LAST_DEPLOY_URL, ctx)
           /\ IF tgo = "raise"
              THEN Commit(w) /\ Handled(p, "error", html, <<>>)
              ELSE Commit(next.w) /\ Handled(p, "ok", html \o next.tg, next.w.gh)
           /\ UNCHANGED <<RECENTLY_MERGED, msgSeq>>
      ELSE IF p.event = "merged"
      THEN /\ TgCan(tgo)
           /\ LAST_DEPLOY_URL' = DictPop(LAST_DEPLOY_URL, ctx)
           /\ msgSeq' = IF tgo = "ok" THEN msgSeq + 1 ELSE msgSeq
           /\ RECENTLY_MERGED' =
                IF deploy_url = "" /\ tgo = "ok"
                THEN DictSet(RECENTLY_MERGED, ctx,
                             [chat_id |-> chat_id, message_id |-> msgSeq + 1,
                              issue_number |-> p.issue_number, repo |-> p.repo, ts |-> now_ts])
                ELSE RECENTLY_MERGED
           /\ IF tgo = "raise"
              THEN Commit(w) /\ Handled(p, "error", <<merged_msg>>, <<>>)
              ELSE Commit(next.w) /\ Handled(p, "ok", <<merged_msg>> \o next.tg, next.w.gh)
      ELSE /\ Commit(w) /\ Handled(p, "ok", <<>>, <<>>)
           /\ UNCHANGED <<LAST_DEPLOY_URL, RECENTLY_MERGED, msgSeq>>

\* The external worker reports on a run of its own; a terminal event ends the run.
WorkerEvent(p, co, o, tgo) ==
  /\ <<p.repo, p.issue_number>> \in ci_runs
  /\ github_notify(p, IF p.event \in TerminalEvents
                      THEN [World EXCEPT !.runs = @ \ {<<p.repo, p.issue_number>>}]
                      ELSE World, co, o, tgo)
  /\ UNCHANGED <<PENDING, ARMED, USER_ACTIVE_REPO, BRANCH_JUST_CREATED, approval_memory, now,
                 create_calls>>

(* ----------------------- callback queries (buttons) --------------------- *)
\* whether the clicker is someone else than the author a button names
author_check(clicker_id, author_id) == clicker_id # author_id

\* The branch of telegram_webhook's callback half that handles a click, in the code's
\* order.  data[1] is the action; draft and reset buttons carry their author in data[2].
ClickRoute(upd) ==
  LET data == upd.data
      action == data[1]
  IN  IF action = "pick" THEN "pick"
      ELSE IF action \in {"ci_ok", "ci_no", "ci_edit"} THEN "ci"
      ELSE IF Len(data) < 2 THEN "malformed"
      ELSE IF author_check(upd.from, data[2]) THEN "foreign"
      ELSE IF action = "reset_confirm" THEN "reset_confirm"
      ELSE IF action = "reset_cancel" THEN "reset_cancel"
      ELSE IF ~DictHas(PENDING, state_key(upd.chat.id, data[2])) THEN "no_draft"
      ELSE IF action = "noop" THEN "noop"
      ELSE IF action \in {"opt_ma", "opt_test", "opt_appr"} THEN "toggle"
      ELSE IF action \in {"cancel", "edit", "shot", "create"} THEN action
      ELSE "unknown"

\* every click is answered first; a failure of that call is swallowed
Answered(upd) == <<TgCall("answerCallbackQuery", upd.chat.id, 0)>>
Reply(upd, what) == <<Say(upd.chat.id, what)>>

\* pick:<repo>:<issue> — mark a merged issue for cherry-pick
PickClick(upd, gho, tgo) ==
  /\ ClickRoute(upd) = "pick"
  /\ LET w == gh_add_label(World, upd.data[3], "cherry-pick", upd.data[2], gho)
         edit == <<TgCall("editMessageText", upd.chat.id, upd.message_id)>>
     IN  /\ Commit(w)
         /\ Handled(upd, Sent(tgo),
                    Answered(upd) \o (IF gho = "ok" THEN edit ELSE <<>>)
                                  \o (IF gho # "ok" \/ tgo = "raise" THEN Reply(upd, "error") ELSE <<>>),
                    w.gh)
  /\ UNCHANGED <<PENDING, ARMED, USER_ACTIVE_REPO, BRANCH_JUST_CREATED, LAST_DEPLOY_URL,
                 RECENTLY_MERGED, approval_memory, now, msgSeq, create_calls>>

\* The first pending approval request whose key ends with the clicked issue (0: none).
EndsWithIssue(key, ci_issue) == key[Len(key)] = ci_issue
TargetKey(ci_issue) ==
  LET hits == {i \in DOMAIN APPROVAL_REQUESTS :
                 /\ EndsWithIssue(APPROVAL_REQUESTS[i][1], ci_issue)
                 /\ APPROVAL_REQUESTS[i][2].status = "pending"}
  IN  IF hits = {} THEN 0 ELSE CHOOSE i \in hits : \A j \in hits : i <= j

\* ci_ok / ci_no / ci_edit:<issue> — the answer to a plan-approval request
CiClick(upd, tgo) ==
  /\ ClickRoute(upd) = "ci"
  /\ LET action == upd.data[1]
         ci_issue == upd.data[2]
         i == TargetKey(ci_issue)
         target_key == APPROVAL_REQUESTS[i][1]
     IN  IF i = 0 THEN UNCHANGED approval_memory
         ELSE IF action = "ci_ok"
         THEN /\ APPROVAL_REQUESTS' = ODictSet(APPROVAL_REQUESTS, target_key,
                                               [status |-> "approved", feedback |-> None])
              /\ UNCHANGED APPROVAL_AWAITING_FEEDBACK
         ELSE IF action = "ci_edit"
         THEN /\ APPROVAL_AWAITING_FEEDBACK' =
                   DictSet(APPROVAL_AWAITING_FEEDBACK, upd.chat.id,
                           [approval_key |-> target_key, issue_number |-> ci_issue])
              /\ UNCHANGED APPROVAL_REQUESTS
         ELSE /\ APPROVAL_REQUESTS' = ODictSet(APPROVAL_REQUESTS, target_key,
                                               [status |-> "rejected", feedback |-> None])
              /\ UNCHANGED APPROVAL_AWAITING_FEEDBACK
  /\ Handled(upd, Sent(tgo), Answered(upd) \o Reply(upd, "approval"), <<>>)
  /\ UNCHANGED <<PENDING, ARMED, USER_ACTIVE_REPO, queue_memory, issues, ci_runs, now, msgSeq,
                 create_calls>>

\* the clicker is not the author the button names: a notice on the click, nothing else
ForeignClick(upd, tgo) ==
  /\ ClickRoute(upd) = "foreign"
  /\ Handled(upd, Sent(tgo), Answered(upd) \o <<TgCall("answerCallbackQuery_text", upd.chat.id, 0)>>,
             <<>>)
  /\ UNCHANGED <<memory, issues, ci_runs, now, msgSeq, create_calls>>

\* reset_confirm:<author> — force the developer's branch back to the default branch
ResetConfirmClick(upd, gho, tgo) ==
  /\ ClickRoute(upd) = "reset_confirm"
  /\ LET dev_info == DictGet(DEVELOPER_MAP, upd.from, None)
         reset_repo == resolve_repo(upd.chat.id, upd.from)
     IN  /\ BRANCH_JUST_CREATED' =
               IF dev_info # None /\ gho = "ok"
               THEN DictSet(BRANCH_JUST_CREATED, ctx_key(reset_repo, dev_info.branch), now_ts)
               ELSE BRANCH_JUST_CREATED
         /\ Handled(upd, Sent(tgo), Answered(upd) \o Reply(upd, "reset"),
                    IF dev_info # None THEN <<<<"force_reset", reset_repo, 0>>>> ELSE <<>>)
  /\ UNCHANGED <<PENDING, ARMED, USER_ACTIVE_REPO, DEV_CHAT, ACTIVE_TICKET, LAST_DEPLOY_URL,
                 RECENTLY_MERGED, CI_PROGRESS, approval_memory, issues, ci_runs, now, msgSeq,
                 create_calls>>

\* clicks that only answer: reset_cancel, a click with no draft behind it
NoticeClick(upd, tgo) ==
  /\ ClickRoute(upd) \in {"reset_cancel", "no_draft"}
  /\ Handled(upd, Sent(tgo), Answered(upd) \o Reply(upd, ClickRoute(upd)), <<>>)
  /\ UNCHANGED <<memory, issues, ci_runs, now, msgSeq, create_calls>>

\* the option a toggle button names
toggle_map(action) ==
  IF action = "opt_ma" THEN "multi_agent" ELSE IF action = "opt_test" THEN "testing"
  ELSE "approve_plan"
\* the re-rendering of a toggle: an edit of the message the draft remembers, if any
toggle_render_sends(state, chat_id, reply_to_id) ==
  <<TgCall("sendMessage_keyboard", chat_id, 0)>>
toggle_render(state, chat_id, reply_to_id) ==
  IF state.confirmation_message_id # 0
  THEN <<TgCall("editMessageText", chat_id, state.confirmation_message_id)>>
  ELSE <<>>
\* an option button that switches its option on and never off
toggle_sets(opts, opt_key) == [opts EXCEPT ![opt_key] = TRUE]
toggle(opts, opt_key) == [opts EXCEPT ![opt_key] = ~@]

\* opt_ma / opt_test / opt_appr:<author>
ToggleClick(upd, tgo) ==
  /\ ClickRoute(upd) = "toggle"
  /\ LET key == state_key(upd.chat.id, upd.data[2])
         state == [DraftOf(key) EXCEPT !.options = toggle(@, toggle_map(upd.data[1]))]
         render == toggle_render(state, upd.chat.id, upd.message_id)
     IN  /\ PENDING' = DictSet(PENDING, key, state)
         /\ IF render = <<>> THEN tgo = "ok" ELSE TRUE
         /\ Handled(upd, Sent(tgo), Answered(upd) \o render, <<>>)
  /\ UNCHANGED <<ARMED, USER_ACTIVE_REPO, queue_memory, approval_memory, issues, ci_runs, now,
                 msgSeq, create_calls>>

\* cancel:<author>
CancelClick(upd, tgo) ==
  /\ ClickRoute(upd) = "cancel"
  /\ PENDING' = DictPop(PENDING, state_key(upd.chat.id, upd.data[2]))
  /\ Handled(upd, Sent(tgo), Answered(upd) \o Reply(upd, "cancelled"), <<>>)
  /\ UNCHANGED <<ARMED, USER_ACTIVE_REPO, queue_memory, approval_memory, issues, ci_runs, now,
                 msgSeq, create_calls>>

\* edit:<author> and shot:<author>: the draft waits for a text or for an image
StageClick(upd, tgo) ==
  /\ ClickRoute(upd) \in {"edit", "shot"}
  /\ LET key == state_key(upd.chat.id, upd.data[2])
         stage == IF upd.data[1] = "edit" THEN "edit" ELSE "await_screenshot"
     IN  PENDING' = DictSet(PENDING, key, [DraftOf(key) EXCEPT !.stage = stage])
  /\ Handled(upd, Sent(tgo), Answered(upd) \o Reply(upd, upd.data[1]), <<>>)
  /\ UNCHANGED <<ARMED, USER_ACTIVE_REPO, queue_memory, approval_memory, issues, ci_runs, now,
                 msgSeq, create_calls>>

\* clicks that end without a word: malformed data, noop, an action nobody handles
SilentClick(upd) ==
  /\ ClickRoute(upd) \in {"malformed", "noop", "unknown"}
  /\ Handled(upd, "ok", Answered(upd), <<>>)
  /\ UNCHANGED <<memory, issues, ci_runs, now, msgSeq, create_calls>>

(* ------------------------------ create:<author> ------------------------ *)
\* The outcomes of the external calls of one submission: the branch lookup ("exists",
\* "created", "failed"), the tracker list calls, the create, upload, update and
\* add-label calls, and the handler's messages to the chat.
CreateOk == [branch |-> "exists", list |-> TRUE, create |-> "ok", shot |-> "ok",
             update |-> "ok", add |-> "ok", size |-> TRUE, tg |-> "ok"]
\* The tracker holds at most MaxIssues issues per repository: past that it refuses.
GhCan(c, repo) == c.create = "ok" => Len(issues[repo]) < MaxIssues

option_labels(opts) == {e[2] : e \in {x \in OPTION_LABELS : opts[x[1]]}}

\* The try block of the submission, step by step; each step hands the world it made to
\* the next one.  The result is [w, failed, tg]: failed when a step raised.
\* an except clause that undoes what the handler did in the tracker
Raised_rolled_back(w) == [w |-> [w EXCEPT !.issues = issues], failed |-> TRUE, tg |-> <<>>]
Raised(w) == [w |-> w, failed |-> TRUE, tg |-> <<>>]
Noticed(w, upd, c, what) == [w |-> w, failed |-> c.tg = "raise", tg |-> Reply(upd, what)]

\* the queue label, the notice (once the body of the issue is final)
create_queue(upd, target_repo, c, title, is_busy, n, w) ==
  LET has_dev == DictHas(DEVELOPER_MAP, upd.from)
      branch == DictGet(DEVELOPER_MAP, upd.from, None).branch
  IN  IF is_busy
      THEN Noticed(queue_size(w, target_repo, branch, c.size).w, upd, c, "queued")
      ELSE IF ~has_dev THEN Noticed(w, upd, c, "created")
      ELSE IF c.add = "raise"
      THEN Raised(GhCall(w, "add_label:queue:execute", target_repo, n))
      ELSE Noticed(queue_size(queue_set_active(gh_add_label(w, n, "queue:execute", target_repo,
                                                            c.add),
                                               target_repo, branch, n, title),
                              target_repo, branch, c.size).w,
                   upd, c, "created")

\* the branch and screenshot lines of the body
create_update(state, upd, target_repo, c, title, is_busy, n, w) ==
  IF ~DictHas(DEVELOPER_MAP, upd.from) /\ state.screenshot = None
  THEN create_queue(upd, target_repo, c, title, is_busy, n, w)
  ELSE IF c.update # "ok" THEN Raised(GhCall(w, "update_issue", target_repo, n))
  ELSE create_queue(upd, target_repo, c, title, is_busy, n,
                    [GhCall(w, "update_issue", target_repo, n) EXCEPT
                       !.issues[target_repo][n].body = "body+info"])

\* the upload of the screenshot
create_upload(state, upd, target_repo, c, title, is_busy, n, w) ==
  IF state.screenshot = None
  THEN create_update(state, upd, target_repo, c, title, is_busy, n, w)
  ELSE IF c.shot # "ok" THEN Raised(GhCall(w, "put_file", target_repo, n))
  ELSE create_update(state, upd, target_repo, c, title, is_busy, n,
                     [GhCall(w, "put_file", target_repo, n) EXCEPT
                        !.issues[target_repo][n].screenshot = TRUE])

\* the issue, with queue:pending when the branch is busy and no queue label when free
create_issue(state, upd, target_repo, c, busy) ==
  LET has_dev == DictHas(DEVELOPER_MAP, upd.from)
      extra_labels == option_labels(state.options)
                        \cup (IF has_dev THEN {DictGet(DEVELOPER_MAP, upd.from, None).label}
                              ELSE {})
                        \cup (IF busy.ret THEN {"queue:pending"} ELSE {})
      title == format_issue(state.text).title
  IN  IF c.create # "ok" THEN Raised(GhCall(busy.w, "create_issue", target_repo, 0))
      ELSE create_upload(state, upd, target_repo, c, title, busy.ret,
                         Len(busy.w.issues[target_repo]) + 1,
                         gh_create_issue(busy.w, title, extra_labels, target_repo))

\* a submission that asks for the queue of dev/a whoever the sender is
create_try_any_sender(state, upd, target_repo, c) ==
  create_issue(state, upd, target_repo, c, queue_is_busy(World, target_repo, "dev/a", c.list))
\* the developer's context and the state of the queue
create_try(state, upd, target_repo, c) ==
  LET dev_info == DictGet(DEVELOPER_MAP, upd.from, None)
  IN  IF DictHas(DEVELOPER_MAP, upd.from)
      THEN create_issue(state, upd, target_repo, c,
             queue_is_busy([World EXCEPT !.DC = DictSet(@, ctx_key(target_repo, dev_info.branch),
                                                        [chat_id |-> upd.chat.id,
                                                         user_id |-> upd.from,
                                                         first_name |-> "Dev"])],
                           target_repo, dev_info.branch, c.list))
      ELSE create_issue(state, upd, target_repo, c, [ret |-> FALSE, w |-> World])

\* whether the try block reached the create-issue call
CreateCalled(w) == \E i \in DOMAIN w.gh : w.gh[i][1] = "create_issue"

\* The finally clause of the submission.
create_finally_keeps(key) == PENDING
create_finally(key) == DictPop(PENDING, key)

\* target_repo = state.get("repo") or resolve_repo(chat_id, clicker_id)
create_target_repo_resolved(state, chat_id, clicker_id) == resolve_repo(chat_id, clicker_id)
create_target_repo(state, chat_id, clicker_id) ==
  IF state.repo # NoneStr THEN state.repo ELSE resolve_repo(chat_id, clicker_id)

CreateClick(upd, c) ==
  /\ ClickRoute(upd) = "create"
  /\ LET key == state_key(upd.chat.id, upd.data[2])
         state == DraftOf(key)
         target_repo == create_target_repo(state, upd.chat.id, upd.from)
         ctx == ctx_key(target_repo, DictGet(DEVELOPER_MAP, upd.from, None).branch)
         r == create_try(state, upd, target_repo, c)
     IN  /\ IF target_repo = NoneStr
            THEN /\ c = [CreateOk EXCEPT !.tg = c.tg]
                 /\ Handled(upd, Sent(c.tg), Answered(upd) \o Reply(upd, "no_repo")
                                               \o (IF c.tg = "raise" THEN Reply(upd, "error") ELSE <<>>),
                            <<>>)
                 /\ UNCHANGED <<DEV_CHAT, BRANCH_JUST_CREATED, ACTIVE_TICKET, CI_PROGRESS, issues,
                                ci_runs, create_calls>>
            ELSE /\ GhCan(c, target_repo)
                 /\ Commit(r.w)
                 /\ BRANCH_JUST_CREATED' =
                      IF DictHas(DEVELOPER_MAP, upd.from) /\ c.branch = "created"
                      THEN DictSet(BRANCH_JUST_CREATED, ctx, now_ts) ELSE BRANCH_JUST_CREATED
                 /\ create_calls' =
                      IF CreateCalled(r.w)
                      THEN DictSet(create_calls, key, DictGet(create_calls, key, 0) + 1)
                      ELSE create_calls
                 \* a failed step is reported by the except clause, with one more message
                 /\ Handled(upd, Sent(c.tg),
                            Answered(upd) \o r.tg \o (IF r.failed THEN Reply(upd, "error") ELSE <<>>),
                            r.w.gh)
         /\ PENDING' = create_finally(key)
  /\ UNCHANGED <<ARMED, USER_ACTIVE_REPO, LAST_DEPLOY_URL, RECENTLY_MERGED, approval_memory,
                 now, msgSeq>>
(* ---------------------------- deploy events ----------------------------- *)
\* site -> path of the application under the site's URL
NETLIFY_APP_PATHS == {<<"site", "play">>}
_netlify_app_url(ssl_url, site_name) ==
  LET app_path == DictGet(NETLIFY_APP_PATHS, site_name, "")
  IN  IF app_path # "" /\ ssl_url # "" THEN ssl_url \o "/" \o app_path \o "/" ELSE ssl_url

\* a deploy notification; title is the kind of the commit: "code", or one of the
\* synthetic ones "screenshot", "merge_main", "devlog"
Deploy(state, repo, branch, site_name, ssl_url, title) ==
  [type |-> "netlify_webhook", state |-> state, repo |-> repo, branch |-> branch,
   name |-> site_name, ssl_url |-> ssl_url, title |-> title]

\* /netlify/webhook.  list_ok is the outcome of the listing of queue_is_busy, tgo of the
\* handler's one call to Telegram.  The windows of 120 and 180 seconds are 2 and 3 ticks.
netlify_webhook(p, list_ok, tgo) ==
  LET ctx == ctx_key(p.repo, p.branch)
      w == WithDevChat(World, p.repo, p.branch)
      chat_id == DictGet(w.DC, ctx, None).chat_id
      app_url == _netlify_app_url(p.ssl_url, p.name)
      busy == queue_is_busy(w, p.repo, p.branch, list_ok)
      created_at == DictGet(BRANCH_JUST_CREATED, ctx, 0)
      merged_info == DictGet(RECENTLY_MERGED, ctx, None)
      html == [TgCall("sendMessage_html", chat_id, 0) EXCEPT !.what = app_url]
  IN  /\ IF ~DictHas(w.DC, ctx)
         THEN /\ list_ok /\ tgo = "ok"
              /\ Commit(w) /\ Handled(p, "ok", <<>>, <<>>)
              /\ UNCHANGED <<LAST_DEPLOY_URL, BRANCH_JUST_CREATED, RECENTLY_MERGED>>
         ELSE IF p.state = "ready"
         THEN IF busy.ret
              THEN /\ tgo = "ok"
                   /\ Commit(busy.w) /\ Handled(p, "ok", <<>>, busy.w.gh)
                   /\ LAST_DEPLOY_URL' = DictSet(LAST_DEPLOY_URL, ctx, app_url)
                   /\ UNCHANGED <<BRANCH_JUST_CREATED, RECENTLY_MERGED>>
              ELSE IF p.title \in {"screenshot", "merge_main", "devlog"}
              THEN /\ tgo = "ok"
                   /\ Commit(busy.w) /\ Handled(p, "ok", <<>>, busy.w.gh)
                   /\ UNCHANGED <<LAST_DEPLOY_URL, BRANCH_JUST_CREATED, RECENTLY_MERGED>>
              ELSE /\ Commit(busy.w)
                   /\ BRANCH_JUST_CREATED' = DictPop(BRANCH_JUST_CREATED, ctx)
                   /\ IF created_at # 0 /\ now_ts - created_at < 2
                      THEN /\ tgo = "ok"
                           /\ LAST_DEPLOY_URL' = DictSet(LAST_DEPLOY_URL, ctx, app_url)
                           /\ Handled(p, "ok", <<>>, busy.w.gh)
                           /\ UNCHANGED RECENTLY_MERGED
                      ELSE /\ RECENTLY_MERGED' = DictPop(RECENTLY_MERGED, ctx)
                           /\ UNCHANGED LAST_DEPLOY_URL
                           /\ IF merged_info # None /\ now_ts - merged_info.ts < 3
                              THEN Handled(p, Sent(tgo),
                                           <<[TgCall("editMessageText", merged_info.chat_id,
                                                     merged_info.message_id)
                                                EXCEPT !.what = app_url]>>, busy.w.gh)
                              ELSE Handled(p, Sent(tgo), <<html>>, busy.w.gh)
         ELSE IF p.state \in {"error", "building"}
         THEN /\ list_ok
              /\ Commit(w)
              /\ Handled(p, Sent(tgo), <<TgCall("sendMessage_html", chat_id, 0)>>, <<>>)
              /\ UNCHANGED <<LAST_DEPLOY_URL, BRANCH_JUST_CREATED, RECENTLY_MERGED>>
         ELSE /\ list_ok /\ tgo = "ok"
              /\ Commit(w) /\ Handled(p, "ok", <<>>, <<>>)
              /\ UNCHANGED <<LAST_DEPLOY_URL, BRANCH_JUST_CREATED, RECENTLY_MERGED>>
      /\ UNCHANGED <<PENDING, ARMED, USER_ACTIVE_REPO, approval_memory, now, msgSeq,
                     create_calls>>

(* --------------------------- queue commands ----------------------------- *)
\* The outcomes of the tracker calls of /clear and /queue before the activation (busy,
\* size: BOOLEAN; remove: GhOutcomes); here all succeed.
CmdOk == [busy |-> TRUE, size |-> TRUE, remove |-> "ok"]

\* /clear — drop the active ticket of the sender's branch, start the next one
ClearCmd(msg, k, o, tgo) ==
  /\ Route(msg) = "clear"
  /\ LET has_dev == DictHas(DEVELOPER_MAP, msg.from)
         branch == DictGet(DEVELOPER_MAP, msg.from, None).branch
         clear_repo == resolve_repo(msg.chat.id, msg.from)
         ctx == ctx_key(clear_repo, branch)
         busy == queue_is_busy(World, clear_repo, branch, k.busy)
         active == Marker(busy.w.AT, ctx)
         size == queue_size(busy.w, clear_repo, branch, k.size)
         cleared == queue_clear_active(size.w, clear_repo, branch, k.remove)
         next == queue_process_next(cleared, clear_repo, branch, o)
         reply == <<TgCall("sendMessage", msg.chat.id, 0)>>
     IN  IF ~has_dev
         THEN /\ k = CmdOk /\ o = NextOk
              /\ Handled(msg, Sent(tgo), reply, <<>>)
              /\ UNCHANGED <<queue_memory, issues, ci_runs>>
         ELSE /\ clear_repo # NoneStr
              /\ IF active = None /\ size.ret = 0
                 THEN /\ Commit(size.w) /\ Handled(msg, Sent(tgo), reply, size.w.gh)
                      /\ UNCHANGED LAST_DEPLOY_URL
                 ELSE /\ LAST_DEPLOY_URL' = DictPop(LAST_DEPLOY_URL, ctx)
                      /\ IF size.ret > 0
                         THEN Commit(next.w) /\ Handled(msg, Sent(tgo), next.tg \o reply, next.w.gh)
                         ELSE Commit(cleared) /\ Handled(msg, Sent(tgo), reply, cleared.gh)
              /\ UNCHANGED <<BRANCH_JUST_CREATED, RECENTLY_MERGED>>
  /\ UNCHANGED <<PENDING, ARMED, USER_ACTIVE_REPO, approval_memory, now, msgSeq, create_calls>>

\* /queue — show the active ticket and the pending ones
QueueCmd(msg, k, tgo) ==
  /\ Route(msg) = "queue"
  /\ LET has_dev == DictHas(DEVELOPER_MAP, msg.from)
         branch == DictGet(DEVELOPER_MAP, msg.from, None).branch
         q_repo == resolve_repo(msg.chat.id, msg.from)
         busy == queue_is_busy(World, q_repo, branch, k.busy)
         listed == queue_list_pending(busy.w, q_repo, branch, k.size)
     IN  IF ~has_dev
         THEN /\ k = CmdOk
              /\ Handled(msg, Sent(tgo), <<TgCall("sendMessage", msg.chat.id, 0)>>, <<>>)
              /\ UNCHANGED <<DEV_CHAT, ACTIVE_TICKET, CI_PROGRESS, issues, ci_runs>>
         ELSE /\ q_repo # NoneStr /\ k.remove = "ok"
              /\ Commit(listed.w)
              /\ Handled(msg, Sent(tgo), <<TgCall("sendMessage", msg.chat.id, 0)>>, listed.w.gh)
  /\ UNCHANGED <<PENDING, ARMED, USER_ACTIVE_REPO, BRANCH_JUST_CREATED, LAST_DEPLOY_URL,
                 RECENTLY_MERGED, approval_memory, now, msgSeq, create_calls>>

(* ----------------------------- plan approval --------------------------- *)
ApprovalRequest(repo, branch, issue_number) ==
  [type |-> "ci_request_approval", repo |-> repo, branch |-> branch,
   issue_number |-> issue_number]
approval_key(repo, branch, issue_number) == <<repo, branch, issue_number>>

\* /ci/request-approval
ci_request_approval(p, tgo) ==
  LET ctx == ctx_key(p.repo, p.branch)
      key == approval_key(p.repo, p.branch, p.issue_number)
      w == WithDevChat(World, p.repo, p.branch)
      w1 == IF DictHas(w.CP, ctx)
            THEN [w EXCEPT !.CP = DictSet(@, ctx, [PhaseStarted(DictGet(@, ctx, None), "A")
                                                   EXCEPT !.last_phase = "approval"])]
            ELSE w
  IN  /\ Commit(w1)
      /\ IF ~DictHas(w.DC, ctx)
         THEN /\ APPROVAL_REQUESTS' = ODictSet(APPROVAL_REQUESTS, key,
                                               [status |-> "approved", feedback |-> None])
              /\ tgo = "ok"
              /\ Handled(p, "ok", <<>>, <<>>)
         ELSE /\ APPROVAL_REQUESTS' = ODictSet(APPROVAL_REQUESTS, key,
                                               [status |-> "pending", feedback |-> None])
              /\ Handled(p, Sent(tgo),
                         <<TgCall("sendMessage_keyboard", DictGet(w.DC, ctx, None).chat_id, 0)>>,
                         <<>>)
      /\ UNCHANGED <<PENDING, ARMED, USER_ACTIVE_REPO, BRANCH_JUST_CREATED, LAST_DEPLOY_URL,
                     RECENTLY_MERGED, APPROVAL_AWAITING_FEEDBACK, now, msgSeq, create_calls>>

\* The worker asks for the approval of the plan of a run of its own.
WorkerApproval(p, tgo) ==
  /\ <<p.repo, p.issue_number>> \in ci_runs
  /\ ci_request_approval(p, tgo)

\* a text while the chat owes the corrections to a plan
ApprovalFeedbackMsg(msg, tgo) ==
  /\ Route(msg) = "approval_feedback"
  /\ LET fb == DictGet(APPROVAL_AWAITING_FEEDBACK, msg.chat.id, None)
     IN  /\ APPROVAL_AWAITING_FEEDBACK' = DictPop(APPROVAL_AWAITING_FEEDBACK, msg.chat.id)
         /\ APPROVAL_REQUESTS' = ODictSet(APPROVAL_REQUESTS, fb.approval_key,
                                          [status |-> "revision", feedback |-> TextOf(msg)])
  /\ Handled(msg, Sent(tgo), <<TgCall("sendMessage", msg.chat.id, 0)>>, <<>>)
  /\ UNCHANGED <<PENDING, ARMED, USER_ACTIVE_REPO, queue_memory, issues, ci_runs, now, msgSeq,
                 create_calls>>

(* ------------------------- time, restarts, overlap ---------------------- *)
\* a second passes
Tick ==
  /\ now < MaxTime
  /\ now' = now + 1
  /\ Handled([type |-> "tick"], "ok", <<>>, <<>>)
  /\ UNCHANGED <<memory, issues, ci_runs, msgSeq, inflight, create_calls>>

\* The process restarts: every module-level dict is empty again, requests in flight are
\* lost; the tracker, the worker and Telegram go on.
Restart ==
  /\ PENDING' = {} /\ ARMED' = {} /\ USER_ACTIVE_REPO' = {} /\ DEV_CHAT' = {}
  /\ BRANCH_JUST_CREATED' = {} /\ ACTIVE_TICKET' = {} /\ LAST_DEPLOY_URL' = {}
  /\ RECENTLY_MERGED' = {} /\ CI_PROGRESS' = {} /\ APPROVAL_REQUESTS' = <<>>
  /\ APPROVAL_AWAITING_FEEDBACK' = {}
  /\ inflight' = <<>>
  /\ create_calls' = {}
  /\ Handled([type |-> "restart"], "ok", <<>>, <<>>)
  /\ UNCHANGED <<issues, ci_runs, now, msgSeq>>

\* telegram_webhook up to its await: the update is read, the rest runs later, other
\* handlers may run in between.
Receive(upd) ==
  /\ Len(inflight) < MaxInflight
  /\ inflight' = Append(inflight, upd)
  /\ UNCHANGED <<memory, issues, ci_runs, now, msgSeq, event, response, tg_calls, gh_calls,
                 create_calls>>
Without(seq, i) == SubSeq(seq, 1, i - 1) \o SubSeq(seq, i + 1, Len(seq))

(* ------------------------------- inputs --------------------------------- *)
\* User 1 is a mapped developer, user 2 is not.
Users == {1, 2}
IssueNumbers == 1 .. MaxIssues
T_ticket_ab == S_ticket \o <<" ", "a", "b">>
T_hi == <<"h", "i">>
NoText == <<>>
Text(chat, user_id, text) == Msg(chat, user_id, text, "none", "none")
Voice(chat, user_id) == Msg(chat, user_id, NoText, "speech", "none")
SilentVoice(chat, user_id) == Msg(chat, user_id, NoText, "silence", "none")
Photo(chat, user_id) == Msg(chat, user_id, NoText, "none", "photo")
\* a click by clicker on a draft button of author, under the first message of the chat
DraftClick(chat, clicker_id, button, author_id) ==
  Click(chat, clicker_id, <<button, author_id>>, 1)

(* ---------------------- specification: drafting ------------------------- *)
\* User 1 drafts in the gated group, user 2 in a private chat with no repository chosen;
\* user 2 also clicks user 1's submit button.  Submit clicks may overlap.
DraftMsgs ==
  {Text(GroupChat, 1, T_ticket_ab), Photo(GroupChat, 1), Text(PrivateChat(2), 2, T_ticket_ab)}
DraftClicks ==
  {DraftClick(GroupChat, 1, b, 1) : b \in {"create", "shot", "cancel"}}
    \cup {DraftClick(PrivateChat(2), 2, "create", 2), DraftClick(GroupChat, 2, "create", 1)}
DraftCreates ==
  {CreateOk, [CreateOk EXCEPT !.create = "raise"], [CreateOk EXCEPT !.shot = "raise"],
   [CreateOk EXCEPT !.tg = "raise"]}

Next ==
  \/ \E msg \in DraftMsgs : GroupTicketMsg(msg, "ok") /\ UNCHANGED inflight
  \/ \E msg \in DraftMsgs : DmTicketMsg(msg, "ok") /\ UNCHANGED inflight
  \/ \E msg \in DraftMsgs : ScreenshotMsg(msg, "ok") /\ UNCHANGED inflight
  \/ \E msg \in DraftMsgs : IgnoredMsg(msg) /\ UNCHANGED inflight
  \/ \E upd \in DraftClicks : ForeignClick(upd, "ok") /\ UNCHANGED inflight
  \/ \E upd \in DraftClicks : NoticeClick(upd, "ok") /\ UNCHANGED inflight
  \/ \E upd \in DraftClicks : CancelClick(upd, "ok") /\ UNCHANGED inflight
  \/ \E upd \in DraftClicks : StageClick(upd, "ok") /\ UNCHANGED inflight
  \/ \E upd \in DraftClicks, c \in DraftCreates : CreateClick(upd, c) /\ UNCHANGED inflight
  \/ \E upd \in DraftClicks : ClickRoute(upd) = "create" /\ Receive(upd)
  \/ \E i \in DOMAIN inflight, c \in DraftCreates :
       CreateClick(inflight[i], c) /\ inflight' = Without(inflight, i)
  \/ \E i \in DOMAIN inflight :
       NoticeClick(inflight[i], "ok") /\ inflight' = Without(inflight, i)
Spec == Init /\ [][Next]_vars

(* ----------------------------- properties ------------------------------- *)
GroupKey1 == state_key(GroupChat.id, 1)
PrivateKey2 == state_key(2, 2)
IsCreateClickByAuthor(e) ==
  e.type = "callback_query" /\ e.data[1] = "create" /\ e.from = e.data[2]

\* C2: for one draft, however many submit clicks of its author are handled, overlapping
\* or not, at most one create-issue call goes to the tracker; a click that finds no draft
\* makes no tracker call at all.
C2_AtMostOneCreateCall ==
  /\ \A e \in create_calls : e[2] <= 1
  /\ (IsCreateClickByAuthor(event) /\ Reply(event, "no_draft")[1] \in Range(tg_calls))
       => gh_calls = <<>>
\* a second submit click was answered "no draft" after the first one created the issue,
\* while a further click of the same author is read and not yet handled
C2_Witness ==
  /\ event = DraftClick(GroupChat, 1, "create", 1)
  /\ Reply(event, "no_draft")[1] \in Range(tg_calls)
  /\ DictGet(create_calls, GroupKey1, 0) = 1
  /\ Len(issues[RepoA]) = 1
  /\ inflight = <<DraftClick(GroupChat, 1, "create", 1)>>

C7_DraftGoneAfterCreate ==
  IsCreateClickByAuthor(event) => ~DictHas(PENDING, KeyOf(event))
\* the submission that failed at the upload of the screenshot, after the issue was created
C7_Witness ==
  /\ IsCreateClickByAuthor(event)
  /\ gh_calls # <<>> /\ gh_calls[Len(gh_calls)][1] = "put_file"
  /\ Reply(event, "error")[1] \in Range(tg_calls)
  /\ Len(issues[RepoA]) = 1 /\ ~issues[RepoA][1].screenshot
  /\ ~DictHas(PENDING, KeyOf(event))

(* ----------------------- specification: arming -------------------------- *)
\* Users 1 and 2 in the gated group: bare /ticket, voice messages, /help, and the clock.
NextArm ==
  \/ \E u \in Users : ArmMsg(Text(GroupChat, u, S_ticket), "ok") /\ UNCHANGED inflight
  \/ \E u \in Users, tgo \in TgAnswers :
       \E msg \in {Voice(GroupChat, u), SilentVoice(GroupChat, u)} :
          VoiceMsg(msg, "ok", tgo) /\ UNCHANGED inflight
  \/ \E u \in Users : IgnoredMsg(Voice(GroupChat, u)) /\ UNCHANGED inflight
  \/ \E u \in Users : HelpCmd(Text(GroupChat, u, S_help), "ok") /\ UNCHANGED inflight
  \/ Tick
SpecArm == Init /\ [][NextArm]_vars

IsVoice(e) == e.type = "message" /\ e.voice # "none"
\* the bare /ticket of the key came at most ARM_TTL_SECONDS ago (and no voice message
\* of the key was turned into a draft since)
ArmedWithinTtl(key) ==
  \E e \in ARMED : e[1] = key /\ now - (e[2] - ARM_TTL_SECONDS) <= ARM_TTL_SECONDS

ArmedAt(D, key) == DictGet(D, key, 0)
\* C29 (as stated): the handling of a voice message that arrives within the window of
\* its key's arming deletes the arming.
C29_FirstVoiceDisarms ==
  [][(IsVoice(event') /\ ArmedWithinTtl(KeyOf(event')))
       => ~DictHas(ARMED', KeyOf(event'))]_vars
\* C29: an arming is set only by the handling of a bare /ticket of its key in the gated
\* group and is deleted only by the handling of a voice message of its key; a voice
\* message with words that arrives within the window makes the draft and deletes the
\* arming, one without words leaves the arming in place; a voice message of a key whose
\* arming has expired, or was consumed by an earlier voice message, or never was, changes
\* neither the drafts nor the armings and is answered by nothing.
C29_ArmingConsumedByDraft ==
  [][/\ \A u \in Users :
          LET key == state_key(GroupChat.id, u)
          IN  /\ (ArmedAt(ARMED', key) # 0 /\ ArmedAt(ARMED', key) # ArmedAt(ARMED, key))
                   => /\ event'.type = "message" /\ TextOf(event') = S_ticket
                      /\ event'.chat = GroupChat /\ KeyOf(event') = key
              /\ (ArmedAt(ARMED, key) # 0 /\ ArmedAt(ARMED', key) = 0)
                   => IsVoice(event') /\ KeyOf(event') = key /\ ArmedWithinTtl(key)
     /\ IsVoice(event')
          => IF ~ArmedWithinTtl(KeyOf(event'))
             THEN PENDING' = PENDING /\ ARMED' = ARMED /\ tg_calls' = <<>>
             ELSE IF event'.voice = "speech"
             THEN /\ ~DictHas(ARMED', KeyOf(event'))
                  /\ DictGet(PENDING', KeyOf(event'), None).text = RecognizedText
             ELSE PENDING' = PENDING /\ ARMED' = ARMED]_vars
\* user 1's second voice message in the window of one arming: the first one made the
\* draft, this one was not answered and left the draft as it was
C29_Witness ==
  /\ event = Voice(GroupChat, 1)
  /\ tg_calls = <<>>
  /\ now = 1
  /\ DictHas(PENDING, GroupKey1)
  /\ DictGet(PENDING, GroupKey1, None).text = RecognizedText
  /\ ~DictHas(ARMED, GroupKey1)

\* C9: every handler ends with the acknowledgment.
C9_AlwaysAcknowledged == response = "ok"

\* C12: a voice message without words that passes the gate gets the "could not
\* recognize" message, creates no draft and makes no tracker call.
C12_EmptyTranscription ==
  [][(IsVoice(event') /\ event'.voice = "silence" /\ ArmedWithinTtl(KeyOf(event')))
       => /\ Say(event'.chat.id, "empty") \in Range(tg_calls')
          /\ PENDING' = PENDING
          /\ gh_calls' = <<>> /\ issues' = issues]_vars
\* user 1's wordless recording was answered; the key has no draft and is still armed
C12_Witness ==
  /\ event = SilentVoice(GroupChat, 1)
  /\ tg_calls = <<Say(GroupChat.id, "transcribing"), Say(GroupChat.id, "empty")>>
  /\ ~DictHas(PENDING, GroupKey1)
  /\ DictHas(ARMED, GroupKey1)
  /\ gh_calls = <<>>

(* ---------------------- specification: toggling ------------------------- *)
\* User 1 drafts in the gated group, attaches an image, asks to edit (and sends the text,
\* which may itself be a ticket command), toggles the three options, cancels, and arms
\* with a bare /ticket; Telegram may refuse the summary (no message id is stored then)
\* and may fail on the edit.
ToggleButtons == {"opt_ma", "opt_test", "opt_appr"}
ToggleClicks == {DraftClick(GroupChat, 1, b, 1) : b \in ToggleButtons}

NextToggle ==
  \/ \E tgo \in TgAnswers :
       GroupTicketMsg(Text(GroupChat, 1, T_ticket_ab), tgo) /\ UNCHANGED inflight
  \/ ScreenshotMsg(Photo(GroupChat, 1), "ok") /\ UNCHANGED inflight
  \/ \E t \in {T_hi, T_ticket_ab} :
       TextEditMsg(Text(GroupChat, 1, t), "ok") /\ UNCHANGED inflight
  \/ ArmMsg(Text(GroupChat, 1, S_ticket), "ok") /\ UNCHANGED inflight
  \/ \E b \in {"edit", "shot"} :
       StageClick(DraftClick(GroupChat, 1, b, 1), "ok") /\ UNCHANGED inflight
  \/ \E upd \in ToggleClicks, tgo \in TgOutcomes : ToggleClick(upd, tgo) /\ UNCHANGED inflight
  \/ \E upd \in ToggleClicks : NoticeClick(upd, "ok") /\ UNCHANGED inflight
  \/ CancelClick(DraftClick(GroupChat, 1, "cancel", 1), "ok") /\ UNCHANGED inflight
SpecToggle == Init /\ [][NextToggle]_vars

IsToggleClickByAuthor(e) ==
  e.type = "callback_query" /\ e.data[1] \in ToggleButtons /\ e.from = e.data[2]
IsSend(call) == call.m \in {"sendMessage", "sendMessage_keyboard", "sendMessage_html"}

\* C10: a toggle click of the author on an existing draft flips the option of the button
\* and no other, keeps the text, the screenshot, the repository, the stage (a confirming
\* draft stays confirming) and the stored message id, sends no message, and edits the
\* stored confirmation message when one is stored.
C10_ToggleFrame ==
  [][(IsToggleClickByAuthor(event') /\ DictHas(PENDING, KeyOf(event')))
       => LET key == KeyOf(event')
              old == DraftOf(key)
              new == DictGet(PENDING', key, None)
              opt == toggle_map(event'.data[1])
          IN  /\ DictHas(PENDING', key)
              /\ new.options[opt] = ~old.options[opt]
              /\ \A k \in DOMAIN old.options \ {opt} : new.options[k] = old.options[k]
              /\ new.text = old.text /\ new.screenshot = old.screenshot
              /\ new.repo = old.repo /\ new.dev_info = old.dev_info
              /\ new.confirmation_message_id = old.confirmation_message_id
              /\ new.stage = old.stage
              /\ \A e \in PENDING : e[1] # key => e \in PENDING'
              /\ \A i \in DOMAIN tg_calls' : ~IsSend(tg_calls'[i])
              /\ msgSeq' = msgSeq
              /\ old.confirmation_message_id # 0
                   => TgCall("editMessageText", event'.chat.id, old.confirmation_message_id)
                        \in Range(tg_calls')]_vars
\* a confirming draft with a screenshot, its second summary stored as message 2, after the
\* click on "testing": only that option is set, and message 2 was edited
C10_Witness ==
  /\ event = DraftClick(GroupChat, 1, "opt_test", 1)
  /\ DictHas(PENDING, GroupKey1)
  /\ DraftOf(GroupKey1).options = [DEFAULT_OPTIONS EXCEPT !.testing = TRUE]
  /\ DraftOf(GroupKey1).screenshot # None
  /\ DraftOf(GroupKey1).stage = "confirm"
  /\ DraftOf(GroupKey1).confirmation_message_id = 2
  /\ tg_calls = Answered(event) \o <<TgCall("editMessageText", GroupChat.id, 2)>>

Toggled(state, action) == [state EXCEPT !.options = toggle(@, toggle_map(action))]
\* C39: a toggle click of the author stores the draft with the option of the button
\* flipped; the same click on the stored draft gives back the draft, and with it the
\* whole draft table, exactly as they were before the click; and the click followed by
\* the click on any other option button gives the same draft as the two in the other order.
C39_ToggleInvolutionCommutes ==
  [][(IsToggleClickByAuthor(event') /\ DictHas(PENDING, KeyOf(event')))
       => LET key == KeyOf(event')
              old == DraftOf(key)
              new == DictGet(PENDING', key, None)
              b == event'.data[1]
          IN  /\ PENDING' = DictSet(PENDING, key, Toggled(old, b))
              /\ new # old
              /\ Toggled(new, b) = old
              /\ DictSet(PENDING', key, Toggled(new, b)) = PENDING
              /\ \A c \in ToggleButtons \ {b} :
                    /\ Toggled(Toggled(old, b), c) = Toggled(Toggled(old, c), b)
                    /\ Toggled(Toggled(old, b), c).options[toggle_map(b)]
                         = ~old.options[toggle_map(b)]
                    /\ Toggled(Toggled(old, b), c).options[toggle_map(c)]
                         = ~old.options[toggle_map(c)]]_vars
\* the second click on "testing" of a draft whose "multi agent" is on: "testing" is off
\* again and "multi agent" still on
C39_Witness ==
  /\ event = DraftClick(GroupChat, 1, "opt_test", 1)
  /\ DictHas(PENDING, GroupKey1)
  /\ DraftOf(GroupKey1).options = [DEFAULT_OPTIONS EXCEPT !.multi_agent = TRUE]
  /\ tg_calls = Answered(event) \o <<TgCall("editMessageText", GroupChat.id, 1)>>

IsCancelClickByAuthor(e) ==
  e.type = "callback_query" /\ e.data[1] = "cancel" /\ e.from = e.data[2]
\* C11: a cancel click of the author on a draft, whatever its stage, removes the draft
\* and calls the tracker not once; the key has no draft afterwards.
C11_CancelRemovesDraft ==
  [][IsCancelClickByAuthor(event')
       => /\ ~DictHas(PENDING', KeyOf(event'))
          /\ gh_calls' = <<>> /\ issues' = issues]_vars
\* the draft of user 1 was cancelled after its summary had been rendered twice
C11_Witness ==
  /\ event = DraftClick(GroupChat, 1, "cancel", 1)
  /\ tg_calls = Answered(event) \o Reply(event, "cancelled")
  /\ ~DictHas(PENDING, GroupKey1)
  /\ msgSeq = 2
  /\ gh_calls = <<>>

\* a message of a group whose text is the ticket command followed by inline text
IsInlineTicket(e) ==
  /\ e.type = "message" /\ is_group(e.chat)
  /\ StartsWith(TextOf(e), S_ticket \o <<" ">>)
InlineText(e) == Strip(SubSeq(TextOf(e), Len(S_ticket) + 1, Len(TextOf(e))))
FreshDraft(key, text) ==
  /\ DictHas(PENDING', key)
  /\ LET new == DictGet(PENDING', key, None)
     IN  /\ new.stage = "confirm"
         /\ new.text = text
         /\ new.screenshot = None
         /\ \A k \in DOMAIN new.options : new.options[k] = FALSE
AwaitsEditText(key) == DictHas(PENDING, key) /\ DraftOf(key).stage = "edit"

C14_NeverReplaced ==
  [][((IsInlineTicket(event') \/ IsVoice(event')) /\ DictHas(PENDING, KeyOf(event')))
       => LET key == KeyOf(event')
              old == DraftOf(key)
              new == DictGet(PENDING', key, None)
          IN  /\ DictHas(PENDING', key)
              /\ new.options = old.options
              /\ new.screenshot = old.screenshot
              /\ old.stage \notin {"edit", "await_screenshot"} => new = old]_vars

IsImage(e) == e.type = "message" /\ e.image # "none"
NextRepo ==
  \/ \E short \in {"a", "b"} :
       RepoCmd(Text(PrivateChat(2), 2, S_repo \o <<" ", short>>), "ok") /\ UNCHANGED inflight
  \/ DmTicketMsg(Text(PrivateChat(2), 2, T_ticket_ab), "ok") /\ UNCHANGED inflight
  \/ CreateClick(DraftClick(PrivateChat(2), 2, "create", 2), CreateOk) /\ UNCHANGED inflight
SpecRepo == Init /\ [][NextRepo]_vars

IsRepoCmd(e) == e.type = "message" /\ StartsWith(TextOf(e), S_repo)
\* the repositories that got an issue in the step
CreatedIn == {r \in Repos : Len(issues'[r]) > Len(issues[r])}

\* C15 as stated: /repo leaves the drafts alone, and a submit creates its issue in the
\* repository the draft has stored since its creation.
C15_RepoOfTheDraft ==
  [][/\ IsRepoCmd(event') => PENDING' = PENDING
     /\ (IsCreateClickByAuthor(event') /\ DictHas(PENDING, KeyOf(event')))
          => CreatedIn \subseteq {DraftOf(KeyOf(event')).repo}]_vars
\* C15: /repo leaves the drafts alone; a submit of a draft that stored a repository at
\* its creation creates its issue there, and a submit of a draft that stored none
\* creates it in the repository resolved at the submit.
C15_RepoFixedWhenResolved ==
  [][/\ IsRepoCmd(event') => PENDING' = PENDING
     /\ (IsCreateClickByAuthor(event') /\ DictHas(PENDING, KeyOf(event')))
          => CreatedIn \subseteq
               {IF DraftOf(KeyOf(event')).repo # NoneStr THEN DraftOf(KeyOf(event')).repo
                ELSE resolve_repo(event'.chat.id, event'.from)}]_vars
\* the draft was made while o/a was selected, the user then selected o/b and submitted:
\* the issue is in o/a
C15_Witness ==
  /\ event = DraftClick(PrivateChat(2), 2, "create", 2)
  /\ DictGet(USER_ACTIVE_REPO, 2, NoneStr) = RepoB
  /\ Len(issues[RepoA]) = 1
  /\ Len(issues[RepoB]) = 0
  /\ gh_calls # <<>>

(* -------------------- specification: authorization ---------------------- *)
\* User 1 (the developer of dev/a) submits tickets from the group; the worker asks for the
\* approval of its plan and reports the merge; both users of the group click the buttons
\* of the draft, of the approval request and of the merge report.
AuthDraftButtons == {"create", "opt_test", "cancel", "reset_confirm"}
ApprovalButtons == {"ci_ok", "ci_no", "ci_edit"}
\* the buttons a user can click are those of messages that were sent: the approval
\* request of issue n, the merge report of issue n
ApprovalAsked(n) == ODictHas(APPROVAL_REQUESTS, approval_key(RepoA, "dev/a", n))
MergeReported(n) ==
  /\ DictHas(RECENTLY_MERGED, ctx_key(RepoA, "dev/a"))
  /\ DictGet(RECENTLY_MERGED, ctx_key(RepoA, "dev/a"), None).issue_number = n

NextAuth ==
  \/ GroupTicketMsg(Text(GroupChat, 1, T_ticket_ab), "ok") /\ UNCHANGED inflight
  \/ CreateClick(DraftClick(GroupChat, 1, "create", 1), CreateOk) /\ UNCHANGED inflight
  \/ \E b \in AuthDraftButtons :
       ForeignClick(DraftClick(GroupChat, 2, b, 1), "ok") /\ UNCHANGED inflight
  \/ \E n \in IssueNumbers :
       WorkerApproval(ApprovalRequest(RepoA, "dev/a", n), "ok") /\ UNCHANGED inflight
  \/ \E n \in IssueNumbers, u \in Users, b \in ApprovalButtons :
       /\ ApprovalAsked(n)
       /\ CiClick(Click(GroupChat, u, <<b, n>>, 1), "ok") /\ UNCHANGED inflight
  \/ \E u \in Users : ApprovalFeedbackMsg(Text(GroupChat, u, T_hi), "ok") /\ UNCHANGED inflight
  \/ \E n \in IssueNumbers :
       WorkerEvent(Notify("merged", RepoA, "dev/a", n), "ok", NextOk, "ok") /\ UNCHANGED inflight
  \/ \E n \in IssueNumbers, u \in Users :
       /\ MergeReported(n)
       /\ PickClick(Click(GroupChat, u, <<"pick", RepoA, n>>, 1), "ok", "ok") /\ UNCHANGED inflight
SpecAuth == Init /\ [][NextAuth]_vars

\* The user a button was made for: the author its data names, and for the buttons of the
\* worker's messages the user the messages of the branch go to (0: unknown).
Originator(e) ==
  IF e.data[1] \in ApprovalButtons \cup {"pick"}
  THEN LET ctx == ctx_key(RepoA, "dev/a")
       IN  IF DictHas(DEV_CHAT, ctx) THEN DictGet(DEV_CHAT, ctx, None).user_id ELSE 0
  ELSE e.data[2]
IsForeignClick(e) ==
  e.type = "callback_query" /\ Originator(e) # 0 /\ e.from # Originator(e)

\* C4: a click by a user other than the one the button was made for changes no draft, no
\* in-memory state (approval statuses included) and no tracker state (labels included).
C4_ForeignClickChangesNothing ==
  [][IsForeignClick(event') => UNCHANGED <<memory, issues>>]_vars

\* the status of the approval request with this key, "none" when there is none
ApprovalStatus(D, key) ==
  IF ODictHas(D, key) THEN D[CHOOSE i \in DOMAIN D : D[i][1] = key][2].status ELSE "none"
\* the user the request for (repo, branch) was sent to
Requester(repo, branch) ==
  LET ctx == ctx_key(repo, branch)
  IN  IF DictHas(DEV_CHAT, ctx) THEN DictGet(DEV_CHAT, ctx, None).user_id ELSE 0

\* C25: the approval request of (repo, branch, issue) has one of the four statuses, is
\* pending when it appears, and leaves pending only in a step that handles a click or a
\* text of the user the request was sent to.
C25_OnlyRequesterDecides ==
  [][\A n \in IssueNumbers :
       LET key == approval_key(RepoA, "dev/a", n)
           before == ApprovalStatus(APPROVAL_REQUESTS, key)
           after == ApprovalStatus(APPROVAL_REQUESTS', key)
       IN  /\ after \in {"none", "pending", "approved", "rejected", "revision"}
           /\ (before = "none" /\ after # "none") => after = "pending"
           /\ (before = "pending" /\ after # "pending")
                => /\ event'.type \in {"callback_query", "message"}
                   /\ event'.from = Requester(RepoA, "dev/a")]_vars

\* C35: an approval request that is approved or rejected keeps its status in every step
\* but the worker's new request for the same (repo, branch, issue).
C35_ApprovalFinal ==
  [][\A n \in IssueNumbers :
       LET key == approval_key(RepoA, "dev/a", n)
           before == ApprovalStatus(APPROVAL_REQUESTS, key)
           after == ApprovalStatus(APPROVAL_REQUESTS', key)
       IN  (before \in {"approved", "rejected"} /\ after # before)
             => event'.type = "ci_request_approval" /\ event'.issue_number = n]_vars

(* ------------------ specification: edit and feedback ------------------- *)
\* User 1 submits a ticket from the group, the worker asks for the approval of its plan,
\* the user asks to correct the plan; the user also drafts a next ticket and asks to
\* edit its text.  Plain texts of the user arrive in between.
NextEdit ==
  \/ GroupTicketMsg(Text(GroupChat, 1, T_ticket_ab), "ok") /\ UNCHANGED inflight
  \/ CreateClick(DraftClick(GroupChat, 1, "create", 1), CreateOk) /\ UNCHANGED inflight
  \/ StageClick(DraftClick(GroupChat, 1, "edit", 1), "ok") /\ UNCHANGED inflight
  \/ TextEditMsg(Text(GroupChat, 1, T_hi), "ok") /\ UNCHANGED inflight
  \/ IgnoredMsg(Text(GroupChat, 1, T_hi)) /\ UNCHANGED inflight
  \/ WorkerApproval(ApprovalRequest(RepoA, "dev/a", 1), "ok") /\ UNCHANGED inflight
  \/ ApprovalAsked(1) /\ CiClick(Click(GroupChat, 1, <<"ci_edit", 1>>, 1), "ok")
       /\ UNCHANGED inflight
  \/ ApprovalFeedbackMsg(Text(GroupChat, 1, T_hi), "ok") /\ UNCHANGED inflight
SpecEdit == Init /\ [][NextEdit]_vars

IsPlainText(e) ==
  /\ e.type = "message" /\ e.voice = "none" /\ e.image = "none"
  /\ TextOf(e) # <<>> /\ ~StartsWith(TextOf(e), <<"/">>)

\* C16: a plain text of the sender whose draft awaits its edited text becomes the text
\* of the draft, and the draft is confirming again, whatever else the chat is waiting for.
C16_EditTextTaken ==
  [][(IsPlainText(event') /\ AwaitsEditText(KeyOf(event')))
       => /\ DictHas(PENDING', KeyOf(event'))
          /\ DictGet(PENDING', KeyOf(event'), None).text = TextOf(event')
          /\ DictGet(PENDING', KeyOf(event'), None).stage = "confirm"]_vars

(* ------------------------ specification: queue -------------------------- *)
\* The developer of dev/a submits tickets from the group, the worker reports on its runs,
\* the developer clears and inspects the queue, and the process restarts.  Every call to
\* the tracker succeeds; Telegram answers the worker's reports with "not ok" (they take no
\* message id).
QueueEvents == {"claude_started", "claude_failed", "merged"}
QueueCtx == ctx_key(RepoA, "dev/a")

NextQueue ==
  \/ GroupTicketMsg(Text(GroupChat, 1, T_ticket_ab), "ok") /\ UNCHANGED inflight
  \/ CreateClick(DraftClick(GroupChat, 1, "create", 1), CreateOk) /\ UNCHANGED inflight
  \/ \E ev \in QueueEvents, n \in IssueNumbers :
       WorkerEvent(Notify(ev, RepoA, "dev/a", n), "ok", NextOk, "not_ok") /\ UNCHANGED inflight
  \/ ClearCmd(Text(GroupChat, 1, S_clear), CmdOk, NextOk, "ok") /\ UNCHANGED inflight
  \/ QueueCmd(Text(GroupChat, 1, S_queue), CmdOk, "ok") /\ UNCHANGED inflight
  \/ Restart
SpecQueue == Init /\ [][NextQueue]_vars

\* the open issues of dev/a in RepoA that carry the label
Labelled(iss, label) ==
  {n \in DOMAIN iss[RepoA] : {label, "developer:a"} \subseteq iss[RepoA][n].labels}
Executing == Labelled(issues, "queue:execute")
Pending == Labelled(issues, "queue:pending")

\* C1: at most one open issue of a (repo, branch) carries queue:execute.
C1_AtMostOneExecuting == Cardinality(Executing) <= 1

\* C5: an issue that goes from pending to executing is the oldest pending issue of its
\* branch: no pending ticket is activated before an older pending one.
C5_Fifo ==
  [][\A n \in Pending :
       n \in Labelled(issues', "queue:execute") => \A m \in Pending : n <= m]_vars
\* tickets 2 and 3 were queued behind ticket 1; the end of the run of 2 has just activated
\* 3, after the end of the run of 1 had activated 2, and the younger ticket still waits
C5_Witness ==
  /\ event.type = "github_notify" /\ event.event \in TerminalEvents /\ event.issue_number = 2
  /\ <<"add_label:queue:execute", RepoA, 3>> \in Range(gh_calls)
  /\ "queue:execute" \in issues[RepoA][3].labels
  /\ "queue:pending" \notin issues[RepoA][2].labels
  /\ "queue:execute" \notin issues[RepoA][1].labels
  /\ Pending = 4 .. MaxIssues
  /\ Marker(ACTIVE_TICKET, QueueCtx) # None
  /\ Marker(ACTIVE_TICKET, QueueCtx)[1].issue_number = 3

\* C6: with an executing issue of the branch and no marker in memory, queue_is_busy
\* returns true and sets the marker to the number of that issue; with a marker in memory
\* it returns true and does not call the tracker.
C6_Recovery ==
  LET r == queue_is_busy(World, RepoA, "dev/a", TRUE)
      marker == Marker(r.w.AT, QueueCtx)
  IN  /\ (Marker(ACTIVE_TICKET, QueueCtx) = None /\ Executing # {})
           => /\ r.ret
              /\ marker # None
              /\ marker[1].issue_number \in Executing
              /\ r.w.issues = issues
      /\ Marker(ACTIVE_TICKET, QueueCtx) # None
           => r.ret /\ r.w.gh = <<>> /\ r.w.AT = ACTIVE_TICKET
\* /queue after a restart: the tracker was asked, and the marker names the executing issue
C6_Witness ==
  /\ event.type = "message" /\ CmdBase(event) = S_queue
  /\ gh_calls[1] = <<"list_issues:queue:execute", RepoA, 0>>
  /\ Executing = {2}
  /\ Marker(ACTIVE_TICKET, QueueCtx) = Some([issue_number |-> 2, title |-> issues[RepoA][2].title])

QueueLabels(iss, repo) ==
  [n \in DOMAIN iss[repo] |-> iss[repo][n].labels \cap {"queue:pending", "queue:execute"}]
IsTerminalEvent(e) == e.type = "github_notify" /\ e.event \in TerminalEvents
IsClearCmd(e) == e.type = "message" /\ CmdBase(e) = S_clear
\* C21: a pending issue of dev/a gets the executing label only in the handling of a
\* claude_failed or merged event or of /clear: no submit, no claude_started event, no
\* /queue, no restart starts a queued issue.
C21_OnlyTerminalOrClearActivates ==
  [][(\E n \in Pending : n \in Labelled(issues', "queue:execute"))
       => IsTerminalEvent(event') \/ IsClearCmd(event')]_vars
\* /clear has taken the executing label from issue 1 and started issue 2, which was
\* pending behind it
C21_Witness ==
  /\ IsClearCmd(event)
  /\ <<"remove_label:queue:execute", RepoA, 1>> \in Range(gh_calls)
  /\ <<"remove_label:queue:pending", RepoA, 2>> \in Range(gh_calls)
  /\ <<"add_label:queue:execute", RepoA, 2>> \in Range(gh_calls)
  /\ Executing = {2}
  /\ <<RepoA, 2>> \in ci_runs

\* C23: with an issue of dev/a executing and no marker in memory (the process restarted
\* during its run), a submit creates its issue pending and not executing, and the
\* terminal event of the running issue leaves at most one issue with the executing label.
C23_RestartConsistency ==
  [][(Marker(ACTIVE_TICKET, QueueCtx) = None /\ Executing # {})
       => /\ (IsCreateClickByAuthor(event') /\ Len(issues'[RepoA]) > Len(issues[RepoA]))
               => LET labels == issues'[RepoA][Len(issues'[RepoA])].labels
                  IN  "queue:pending" \in labels /\ "queue:execute" \notin labels
          /\ (IsTerminalEvent(event') /\ event'.issue_number \in Executing)
               => Cardinality(Labelled(issues', "queue:execute")) <= 1]_vars

\* C30: a terminal event that names an issue other than the active one of dev/a leaves
\* the marker and the labels of every issue as they were.
C30_StaleTerminalIgnored ==
  [][(/\ IsTerminalEvent(event')
      /\ Marker(ACTIVE_TICKET, QueueCtx) # None
      /\ Marker(ACTIVE_TICKET, QueueCtx)[1].issue_number # event'.issue_number)
       => /\ Marker(ACTIVE_TICKET', QueueCtx) = Marker(ACTIVE_TICKET, QueueCtx)
          /\ QueueLabels(issues', RepoA) = QueueLabels(issues, RepoA)]_vars

\* C32: the issue the marker of dev/a names carries the executing label, and when an
\* issue of dev/a carries the executing label queue_is_busy reports the branch busy.
C32_MarkerLabelAgreement ==
  /\ Marker(ACTIVE_TICKET, QueueCtx) # None
       => Marker(ACTIVE_TICKET, QueueCtx)[1].issue_number \in Executing
  /\ Executing # {} => queue_is_busy(World, RepoA, "dev/a", TRUE).ret

\* the labels of the issue a submission has just created
NewLabels == issues'[RepoA][Len(issues'[RepoA])].labels
\* C31: a submission made while dev/a has pending issues is created pending and is not
\* given the executing label.
C31_QueuedBehindPending ==
  [][(/\ IsCreateClickByAuthor(event')
      /\ Len(issues'[RepoA]) > Len(issues[RepoA])
      /\ Pending # {})
       => "queue:pending" \in NewLabels /\ "queue:execute" \notin NewLabels]_vars

(* --------------------- specification: label swap ------------------------ *)
\* User 1 submits tickets from the group and the worker ends its runs; the tracker may
\* refuse (HTTP status of 300 or more) the removal of queue:pending or the addition of
\* queue:execute in the swap of queue_process_next.
SwapOutcomes ==
  {NextOk, [NextOk EXCEPT !.remove = "status"], [NextOk EXCEPT !.add = "status"]}
NextSwap ==
  \/ GroupTicketMsg(Text(GroupChat, 1, T_ticket_ab), "ok") /\ UNCHANGED inflight
  \/ CreateClick(DraftClick(GroupChat, 1, "create", 1), CreateOk) /\ UNCHANGED inflight
  \/ \E ev \in TerminalEvents, n \in IssueNumbers, o \in SwapOutcomes :
       WorkerEvent(Notify(ev, RepoA, "dev/a", n), "ok", o, "not_ok") /\ UNCHANGED inflight
SpecSwap == Init /\ [][NextSwap]_vars

\* C33: no issue carries queue:pending and queue:execute together (an issue that
\* carried both would be listed, and selected, by the next queue_process_next).
C33_NeverBothLabels ==
  \A n \in DOMAIN issues[RepoA] :
    ~({"queue:pending", "queue:execute"} \subseteq issues[RepoA][n].labels)

\* the handler tried to give issue n the executing label and the issue did not get it
AddFailed(n) ==
  /\ <<"add_label:queue:execute", RepoA, n>> \in Range(gh_calls')
  /\ n \in DOMAIN issues'[RepoA]
  /\ "queue:execute" \notin issues'[RepoA][n].labels
\* C34: when the add-label call of queue_process_next fails for the head of the queue,
\* no marker is set and the head still carries queue:pending.
C34_HeadStaysPending ==
  [][\A n \in IssueNumbers :
       (IsTerminalEvent(event') /\ AddFailed(n))
         => /\ Marker(ACTIVE_TICKET', QueueCtx) = None
            /\ "queue:pending" \in issues'[RepoA][n].labels]_vars

(* ----------------------- specification: upload -------------------------- *)
\* User 1 drafts in the group, attaches a screenshot and submits; the upload of the
\* screenshot or the update of the body that follows may raise.
UploadOutcomes ==
  {CreateOk, [CreateOk EXCEPT !.shot = "raise"], [CreateOk EXCEPT !.update = "raise"],
   [CreateOk EXCEPT !.shot = "status"], [CreateOk EXCEPT !.update = "raise", !.tg = "not_ok"]}
NextUpload ==
  \/ GroupTicketMsg(Text(GroupChat, 1, T_ticket_ab), "ok") /\ UNCHANGED inflight
  \/ ScreenshotMsg(Photo(GroupChat, 1), "ok") /\ UNCHANGED inflight
  \/ \E c \in UploadOutcomes :
       CreateClick(DraftClick(GroupChat, 1, "create", 1), c) /\ UNCHANGED inflight
  \/ \E ev \in TerminalEvents, n \in IssueNumbers :
       WorkerEvent(Notify(ev, RepoA, "dev/a", n), "ok", NextOk, "not_ok") /\ UNCHANGED inflight
SpecUpload == Init /\ [][NextUpload]_vars

\* the last tracker call of the handler was the upload, or the update of the body, of an
\* issue that the call did not change
UploadFailed(calls, iss) ==
  /\ calls # <<>>
  /\ LET last == calls[Len(calls)]
         there == last[3] \in DOMAIN iss[last[2]]
     IN  \/ last[1] = "put_file" /\ (there => ~iss[last[2]][last[3]].screenshot)
         \/ last[1] = "update_issue" /\ (there => iss[last[2]][last[3]].body = "body")
CallsNamed(calls, name) == {i \in DOMAIN calls : calls[i][1] = name}

\* C24: a submit whose upload or body update failed after the issue was created keeps
\* the issue: the repository has exactly one issue more, made by the one create call of
\* the handler, every issue that was there is as it was, the only calls to the tracker
\* are listings, the create, the upload and the update, the chat got the failure
\* message, and the draft is gone.
C24_IssueKeptOnUploadFailure ==
  [][(IsCreateClickByAuthor(event') /\ UploadFailed(gh_calls', issues'))
       => /\ Len(issues'[RepoA]) = Len(issues[RepoA]) + 1
          /\ \A n \in DOMAIN issues[RepoA] : issues'[RepoA][n] = issues[RepoA][n]
          /\ issues'[RepoB] = issues[RepoB]
          /\ Cardinality(CallsNamed(gh_calls', "create_issue")) = 1
          /\ \A i \in DOMAIN gh_calls' :
               gh_calls'[i][1] \in {"list_issues:queue:execute", "list_issues:queue:pending",
                                    "branch_exists", "create_branch", "create_issue",
                                    "put_file", "update_issue"}
          /\ Reply(event', "error")[1] \in Range(tg_calls')
          /\ ~DictHas(PENDING', KeyOf(event'))]_vars
\* the second submission failed at the update of the body, after the screenshot was
\* uploaded: issue 2 is there, pending behind issue 1, and the draft is gone
C24_Witness ==
  /\ IsCreateClickByAuthor(event)
  /\ gh_calls[Len(gh_calls)] = <<"update_issue", RepoA, 2>>
  /\ Len(issues[RepoA]) = 2
  /\ issues[RepoA][2].screenshot /\ issues[RepoA][2].body = "body"
  /\ "queue:pending" \in issues[RepoA][2].labels
  /\ Reply(event, "error")[1] \in Range(tg_calls)
  /\ ~DictHas(PENDING, GroupKey1)

(* ----------------------- specification: deploys ------------------------- *)
\* User 1 submits tickets from the group; the site of dev/a reports its deploys, the
\* worker ends its runs, the user clears the queue.
NextDeploy ==
  \/ GroupTicketMsg(Text(GroupChat, 1, T_ticket_ab), "ok") /\ UNCHANGED inflight
  \/ \E b \in {"exists", "created"} :
       CreateClick(DraftClick(GroupChat, 1, "create", 1), [CreateOk EXCEPT !.branch = b])
         /\ UNCHANGED inflight
  \/ \E st \in {"ready", "building"}, url \in {"u1", "u2"} :
       netlify_webhook(Deploy(st, RepoA, "dev/a", "site", url, "code"), TRUE, "ok")
         /\ UNCHANGED inflight
  \/ \E ev \in TerminalEvents, n \in IssueNumbers :
       WorkerEvent(Notify(ev, RepoA, "dev/a", n), "ok", NextOk, "ok") /\ UNCHANGED inflight
  \/ ClearCmd(Text(GroupChat, 1, S_clear), CmdOk, NextOk, "ok") /\ UNCHANGED inflight
SpecDeploy == Init /\ [][NextDeploy]_vars

IsReadyDeploy(e) == e.type = "netlify_webhook" /\ e.state = "ready"
CachedUrl(D) == DictGet(D, QueueCtx, "")
\* C26: a 'ready' deploy event handled while dev/a has an active ticket sends nothing and
\* caches its URL; the merged event sends the cached URL in its completion message and
\* removes it; a claude_failed event or /clear removes it and sends it in no message.
C26_DeployUrlDeferred ==
  [][/\ (IsReadyDeploy(event') /\ Marker(ACTIVE_TICKET, QueueCtx) # None)
        => /\ tg_calls' = <<>>
           /\ CachedUrl(LAST_DEPLOY_URL') = _netlify_app_url(event'.ssl_url, event'.name)
     /\ (IsTerminalEvent(event') /\ event'.event = "merged" /\ CachedUrl(LAST_DEPLOY_URL) # "")
        => /\ tg_calls'[1].m = "sendMessage_keyboard"
           /\ tg_calls'[1].what = CachedUrl(LAST_DEPLOY_URL)
           /\ CachedUrl(LAST_DEPLOY_URL') = ""
     /\ (/\ (IsTerminalEvent(event') /\ event'.event = "claude_failed") \/ IsClearCmd(event')
         /\ Marker(ACTIVE_TICKET, QueueCtx) # None
         /\ CachedUrl(LAST_DEPLOY_URL) # "")
        => /\ CachedUrl(LAST_DEPLOY_URL') = ""
           /\ \A i \in DOMAIN tg_calls' : tg_calls'[i].what # CachedUrl(LAST_DEPLOY_URL)]_vars
\* the merged event of issue 1 told the chat the URL of the deploy that was reported
\* while the issue was executing, and the URL is cached no more
C26_Witness ==
  /\ IsTerminalEvent(event) /\ event.event = "merged" /\ event.issue_number = 1
  /\ tg_calls[1].what = "u1/play/"
  /\ CachedUrl(LAST_DEPLOY_URL) = ""

(* ---------------------- specification: two queues ----------------------- *)
\* User 1 works on dev/a of two repositories: o/a from the group, o/b from the private
\* chat after /repo b.  Each repository has its worker, its site and its queue.
NextPairs ==
  \/ GroupTicketMsg(Text(GroupChat, 1, T_ticket_ab), "ok") /\ UNCHANGED inflight
  \/ RepoCmd(Text(PrivateChat(1), 1, S_repo \o <<" ", "b">>), "ok") /\ UNCHANGED inflight
  \/ DmTicketMsg(Text(PrivateChat(1), 1, T_ticket_ab), "ok") /\ UNCHANGED inflight
  \/ \E chat \in {GroupChat, PrivateChat(1)} :
       CreateClick(DraftClick(chat, 1, "create", 1), CreateOk) /\ UNCHANGED inflight
  \/ \E r \in Repos, n \in IssueNumbers :
       WorkerEvent(Notify("merged", r, "dev/a", n), "ok", NextOk, "ok") /\ UNCHANGED inflight
  \/ \E r \in Repos :
       netlify_webhook(Deploy("ready", r, "dev/a", "site", "u1", "code"), TRUE, "ok")
         /\ UNCHANGED inflight
  \/ \E chat \in {GroupChat, PrivateChat(1)} :
       ClearCmd(Text(chat, 1, S_clear), CmdOk, NextOk, "ok") /\ UNCHANGED inflight
SpecPairs == Init /\ [][NextPairs]_vars

\* the repository an event is about: the one its payload names, the one of its chat
EventRepo(e) ==
  IF e.type \in {"github_notify", "netlify_webhook"} THEN e.repo
  ELSE IF e.chat = GroupChat THEN RepoA ELSE RepoB
\* the marker, the progress record and the cached deploy URL of (repo, dev/a)
PairMemory(AT, CP, LD, repo) ==
  LET ctx == ctx_key(repo, "dev/a")
  IN  <<DictGet(AT, ctx, None), DictGet(CP, ctx, None), DictGet(LD, ctx, "")>>

ChatRepo(chat) == IF chat = GroupChat THEN RepoA ELSE RepoB
NextApprovals ==
  \/ GroupTicketMsg(Text(GroupChat, 1, T_ticket_ab), "ok") /\ UNCHANGED inflight
  \/ RepoCmd(Text(PrivateChat(1), 1, S_repo \o <<" ", "b">>), "ok") /\ UNCHANGED inflight
  \/ DmTicketMsg(Text(PrivateChat(1), 1, T_ticket_ab), "ok") /\ UNCHANGED inflight
  \/ \E chat \in {GroupChat, PrivateChat(1)} :
       CreateClick(DraftClick(chat, 1, "create", 1), CreateOk) /\ UNCHANGED inflight
  \/ \E r \in Repos :
       WorkerApproval(ApprovalRequest(r, "dev/a", 1), "ok") /\ UNCHANGED inflight
  \/ \E chat \in {GroupChat, PrivateChat(1)}, b \in ApprovalButtons :
       /\ ODictHas(APPROVAL_REQUESTS, approval_key(ChatRepo(chat), "dev/a", 1))
       /\ DictGet(DEV_CHAT, ctx_key(ChatRepo(chat), "dev/a"), None).chat_id = chat.id
       /\ CiClick(Click(chat, 1, <<b, 1>>, 1), "ok") /\ UNCHANGED inflight
SpecApprovals == Init /\ [][NextApprovals]_vars

IsCiClick(e) == e.type = "callback_query" /\ e.data[1] \in ApprovalButtons
\* C36: a click on an approval button in the chat the request of a repository's dev/a
\* was sent to leaves the request of the other repository's dev/a as it was, and when
\* it asks for corrections the corrections are awaited for the request of that chat.
C36_ClickChangesItsRequest ==
  [][IsCiClick(event')
       => /\ \A r \in Repos, n \in IssueNumbers :
               r # EventRepo(event')
                 => ApprovalStatus(APPROVAL_REQUESTS', approval_key(r, "dev/a", n))
                      = ApprovalStatus(APPROVAL_REQUESTS, approval_key(r, "dev/a", n))
          /\ APPROVAL_AWAITING_FEEDBACK' # APPROVAL_AWAITING_FEEDBACK
               => DictGet(APPROVAL_AWAITING_FEEDBACK', event'.chat.id, None).approval_key[1]
                    = EventRepo(event')]_vars

(* --------------------- specification: old buttons ----------------------- *)
\* User 1 drafts in the gated group again and again (a new ticket command replaces the
\* draft there is) and clicks the submit and cancel buttons of any summary message sent
\* so far.  Every message id handed out here is the id of a summary message.
NextStale ==
  \/ GroupTicketMsg(Text(GroupChat, 1, T_ticket_ab), "ok") /\ UNCHANGED inflight
  \/ \E m \in 1 .. MaxMsg :
       /\ m <= msgSeq
       /\ CreateClick(Click(GroupChat, 1, <<"create", 1>>, m), CreateOk) /\ UNCHANGED inflight
  \/ \E m \in 1 .. MaxMsg :
       /\ m <= msgSeq
       /\ CancelClick(Click(GroupChat, 1, <<"cancel", 1>>, m), "ok") /\ UNCHANGED inflight
  \/ \E ev \in TerminalEvents, n \in IssueNumbers :
       WorkerEvent(Notify(ev, RepoA, "dev/a", n), "ok", NextOk, "not_ok") /\ UNCHANGED inflight
SpecStale == Init /\ [][NextStale]_vars

\* the author's click on a button of a summary message other than the one of the draft
\* the key has now
IsStaleClick(e) ==
  /\ e.type = "callback_query" /\ e.data[1] \in {"create", "cancel"} /\ e.from = e.data[2]
  /\ DictHas(PENDING, KeyOf(e))
  /\ DraftOf(KeyOf(e)).confirmation_message_id \notin {0, e.message_id}
\* C37: a click on a button of the summary message of an earlier draft of the key
\* neither submits nor cancels nor changes the draft the key has now.
C37_OldButtonsInert ==
  [][IsStaleClick(event') => PENDING' = PENDING /\ issues' = issues]_vars

(* ---------------------- specification: two users ------------------------ *)
\* Users 1 and 2 both work in the gated group: each drafts, arms, speaks, sends an image,
\* asks to edit and sends the text, cancels, and clicks the other's buttons.
NextIsolation ==
  \/ \E u \in Users : GroupTicketMsg(Text(GroupChat, u, T_ticket_ab), "ok") /\ UNCHANGED inflight
  \/ \E u \in Users : ArmMsg(Text(GroupChat, u, S_ticket), "ok") /\ UNCHANGED inflight
  \/ \E u \in Users : VoiceMsg(Voice(GroupChat, u), "ok", "ok") /\ UNCHANGED inflight
  \/ \E u \in Users : ScreenshotMsg(Photo(GroupChat, u), "ok") /\ UNCHANGED inflight
  \/ \E u \in Users : StageClick(DraftClick(GroupChat, u, "edit", u), "ok") /\ UNCHANGED inflight
  \/ \E u \in Users : TextEditMsg(Text(GroupChat, u, T_hi), "ok") /\ UNCHANGED inflight
  \/ \E u \in Users : CancelClick(DraftClick(GroupChat, u, "cancel", u), "ok") /\ UNCHANGED inflight
  \/ \E u \in Users, b \in {"create", "cancel"} :
       ForeignClick(DraftClick(GroupChat, u, b, 3 - u), "ok") /\ UNCHANGED inflight
SpecIsolation == Init /\ [][NextIsolation]_vars

\* C38: a step that handles a message or a click of one user leaves the draft and the
\* arming of every other user of the chat as they were.
C38_DraftIsolation ==
  [][\A u \in Users :
       (event'.type \in {"message", "callback_query"} /\ event'.from # u)
         => LET key == state_key(GroupChat.id, u)
            IN  /\ DictHas(PENDING', key) = DictHas(PENDING, key)
                /\ DictGet(PENDING', key, None) = DictGet(PENDING, key, None)
                /\ DictHas(ARMED', key) = DictHas(ARMED, key)
                /\ DictGet(ARMED', key, 0) = DictGet(ARMED, key, 0)]_vars
\* user 2's image went into user 2's draft while user 1 had a draft of their own, in the
\* edit stage
C38_Witness ==
  /\ event = Photo(GroupChat, 2)
  /\ DictHas(PENDING, state_key(GroupChat.id, 2))
  /\ DraftOf(state_key(GroupChat.id, 2)).screenshot # None
  /\ DictHas(PENDING, GroupKey1)
  /\ DraftOf(GroupKey1).stage = "edit"
  /\ DraftOf(GroupKey1).screenshot = None

(* ------------------- specification: progress tracking ------------------- *)
\* User 1 submits tickets from the gated group, and the worker reports on the runs it
\* has: the start, the phases in any order (a plan sent back for revision is planned
\* again), the request for the approval of the plan, and the end.
PhaseNums == {"1", "2"}
NextProgress ==
  \/ GroupTicketMsg(Text(GroupChat, 1, T_ticket_ab), "ok") /\ UNCHANGED inflight
  \/ CreateClick(DraftClick(GroupChat, 1, "create", 1), CreateOk) /\ UNCHANGED inflight
  \/ \E n \in IssueNumbers :
       WorkerEvent(Notify("claude_started", RepoA, "dev/a", n), "ok", NextOk, "not_ok")
         /\ UNCHANGED inflight
  \/ \E n \in IssueNumbers, k \in PhaseNums :
       WorkerEvent([Notify("phase", RepoA, "dev/a", n) EXCEPT !.phase_num = k], "ok", NextOk,
                   "not_ok") /\ UNCHANGED inflight
  \/ \E n \in IssueNumbers :
       WorkerApproval(ApprovalRequest(RepoA, "dev/a", n), "ok") /\ UNCHANGED inflight
  \/ \E ev \in TerminalEvents, n \in IssueNumbers :
       WorkerEvent(Notify(ev, RepoA, "dev/a", n), "ok", NextOk, "not_ok") /\ UNCHANGED inflight
SpecProgress == Init /\ [][NextProgress]_vars

ProgressOf(ctx) == DictGet(CI_PROGRESS, ctx, None)
\* C40: while dev/a has a progress record, its list of completed phases holds no phase
\* twice and does not hold the phase recorded as the current one.
C40_DoneExcludesCurrent ==
  DictHas(CI_PROGRESS, QueueCtx)
    => LET done == ProgressOf(QueueCtx).phases_done
       IN  /\ \A i, j \in DOMAIN done : done[i] = done[j] => i = j
           /\ \A i \in DOMAIN done : done[i] # ProgressOf(QueueCtx).current_phase_num

(* -------------------- specification: unmapped sender -------------------- *)
\* User 1, the developer of dev/a, and user 2, who has no developer mapping, both submit
\* tickets from the group; the worker ends its runs.
NextUnmapped ==
  \/ \E u \in Users : GroupTicketMsg(Text(GroupChat, u, T_ticket_ab), "ok") /\ UNCHANGED inflight
  \/ \E u \in Users :
       CreateClick(DraftClick(GroupChat, u, "create", u), CreateOk) /\ UNCHANGED inflight
  \/ \E ev \in TerminalEvents, n \in IssueNumbers :
       WorkerEvent(Notify(ev, RepoA, "dev/a", n), "ok", NextOk, "ok") /\ UNCHANGED inflight
SpecUnmapped == Init /\ [][NextUnmapped]_vars

DeveloperLabels == {e[2].label : e \in DEVELOPER_MAP}
\* C28: a submission by a user with no developer mapping creates an issue with no
\* developer label and no queue label, makes no call to the tracker but the creation
\* (no listing, no labelling), and leaves the markers, the progress records, the chats of
\* the branches and every issue that was there as they were.
C28_UnmappedSubmitOutsideQueue ==
  [][(IsCreateClickByAuthor(event') /\ ~DictHas(DEVELOPER_MAP, event'.from)
        /\ Len(issues'[RepoA]) > Len(issues[RepoA]))
       => /\ Len(issues'[RepoA]) = Len(issues[RepoA]) + 1
          /\ issues'[RepoA][Len(issues'[RepoA])].labels
               \cap (DeveloperLabels \cup {"queue:pending", "queue:execute"}) = {}
          /\ gh_calls' = <<<<"create_issue", RepoA, Len(issues'[RepoA])>>>>
          /\ \A n \in DOMAIN issues[RepoA] : issues'[RepoA][n] = issues[RepoA][n]
          /\ UNCHANGED <<ACTIVE_TICKET, CI_PROGRESS, DEV_CHAT, LAST_DEPLOY_URL, ci_runs>>]_vars
\* user 2 submitted issue 3 while issue 1 was executing and issue 2 pending on dev/a
C28_Witness ==
  /\ IsCreateClickByAuthor(event) /\ event.from = 2
  /\ Len(issues[RepoA]) = 3
  /\ issues[RepoA][3].labels = {}
  /\ "queue:execute" \in issues[RepoA][1].labels
  /\ "queue:pending" \in issues[RepoA][2].labels
  /\ Marker(ACTIVE_TICKET, QueueCtx) # None

(* ---------------------- specification: progress ------------------------- *)
\* The developer of dev/a submits tickets from the group and the process may restart.
\* Every call to the tracker succeeds, and the worker does report the end of each run it
\* started: its terminal events are weakly fair.
WorkerEnds ==
  \E ev \in TerminalEvents, n \in IssueNumbers :
    WorkerEvent(Notify(ev, RepoA, "dev/a", n), "ok", NextOk, "not_ok") /\ UNCHANGED inflight
NextLive ==
  \/ GroupTicketMsg(Text(GroupChat, 1, T_ticket_ab), "ok") /\ UNCHANGED inflight
  \/ CreateClick(DraftClick(GroupChat, 1, "create", 1), CreateOk) /\ UNCHANGED inflight
  \/ WorkerEnds
  \/ Restart
SpecLive == Init /\ [][NextLive]_vars /\ WF_vars(WorkerEnds)

\* C22: a pending issue of dev/a eventually is the executing one (stated for the second
\* issue of the repository, the first one that can be created pending).
C22_PendingEventuallyExecutes == (2 \in Pending) ~> (2 \in Executing)

(* ------------------- specification: worker reports ---------------------- *)
\* The developer of dev/a submits tickets from the group and the worker reports the end
\* of its runs; Telegram takes the report ("not ok": no message id) or the request to
\* Telegram raises.
NextNotify ==
  \/ GroupTicketMsg(Text(GroupChat, 1, T_ticket_ab), "ok") /\ UNCHANGED inflight
  \/ CreateClick(DraftClick(GroupChat, 1, "create", 1), CreateOk) /\ UNCHANGED inflight
  \/ \E ev \in TerminalEvents, n \in IssueNumbers, tgo \in {"not_ok", "raise"} :
       WorkerEvent(Notify(ev, RepoA, "dev/a", n), "ok", NextOk, tgo) /\ UNCHANGED inflight
SpecNotify == Init /\ [][NextNotify]_vars

\* C19: the handling of a terminal event of dev/a takes the executing label from the
\* issue the marker named, then makes the oldest pending issue of the branch the
\* executing one (pending label off, executing label on, marker set to it); with no
\* pending issue the marker is cleared and no issue is started.
C19_TerminalAdvances ==
  [][(event'.type = "github_notify" /\ event'.event \in TerminalEvents)
       => LET old == Marker(ACTIVE_TICKET, QueueCtx)
              new == Marker(ACTIVE_TICKET', QueueCtx)
              oldest == CHOOSE n \in Pending : \A m \in Pending : n <= m
          IN  /\ old # None => old[1].issue_number \notin Labelled(issues', "queue:execute")
              /\ IF Pending # {}
                 THEN /\ oldest \in Labelled(issues', "queue:execute")
                      /\ oldest \notin Labelled(issues', "queue:pending")
                      /\ new # None /\ new[1].issue_number = oldest
                 ELSE /\ new = None
                      /\ Labelled(issues', "queue:execute") \subseteq Executing]_vars

\* C18: a submit of the developer that creates an issue leaves that issue either pending,
\* or executing and named by the marker of the branch, however its later steps end.
C18_CreatedIsQueued ==
  [][(IsCreateClickByAuthor(event') /\ DictHas(DEVELOPER_MAP, event'.from)
        /\ Len(issues'[RepoA]) > Len(issues[RepoA]))
       => LET n == Len(issues'[RepoA])
              labels == issues'[RepoA][n].labels
              marker == Marker(ACTIVE_TICKET', QueueCtx)
          IN  \/ "queue:pending" \in labels /\ "queue:execute" \notin labels
              \/ /\ "queue:execute" \in labels /\ "queue:pending" \notin labels
                 /\ marker # None /\ marker[1].issue_number = n]_vars

\* C20: in every state, with or without a marker in memory, queue_clear_active of dev/a
\* (its call to the tracker succeeding) leaves no issue of the branch with the executing
\* label, no marker and no progress record.
C20_ClearActiveClears ==
  LET w == queue_clear_active(World, RepoA, "dev/a", "ok")
  IN  /\ Labelled(w.issues, "queue:execute") = {}
      /\ Marker(w.AT, QueueCtx) = None
      /\ ~DictHas(w.CP, QueueCtx)

====
